---- MODULE Spec2Model ----
(***************************************************************************)
(* A model of the compact-binary client: the AT terminal of at.py (Line    *)
(* Reader, Command/Response Gate, URC queue) and the transaction           *)
(* correlator of client.py (next_transaction_id, wait_for_ack and the      *)
(* acknowledgment branch of ack_handler_thread).                           *)
(*                                                                         *)
(* Threads interleave at the granularity of Python statements: one action  *)
(* is one statement that touches shared state, together with the local     *)
(* statements around it.  A statement that reads shared state and then     *)
(* writes it, or reads two shared attributes, is one action per access,    *)
(* since the interpreter may switch threads in between.  A block under     *)
(* `with _ack_lock` is an acquire step followed by a body-and-release step.*)
(*                                                                         *)
(* Python values: a str is a sequence of characters; None, str and list     *)
(* values of responseData are records [kind, items].  A character is a     *)
(* one-character string when it is printable ASCII or has an escape of its *)
(* own, and the string of its Python escape otherwise: the vertical tab is *)
(* the string \x0b, the no-break space \xa0, the e acute \xe9, the Greek     *)
(* capital delta \u0394, the mathematical bold zero \U0001d7ce.  The        *)
(* alphabet is all of Unicode.  A line of the serial port is the str its   *)
(* bytes decode to; a byte that is no part of a valid UTF-8 sequence is    *)
(* the lone surrogate Python's surrogateescape gives it, \udcff for the    *)
(* byte ff, and a line that holds one cannot be decoded.                   *)
(***************************************************************************)
EXTENDS Integers, Sequences, FiniteSets, TLC

----------------------------------------------------------------------------
(* Bounds of the model *)

\* the startup sequence: lines the Line Reader reads, and send_command calls made
StartupLines == 3
StartupSends == 2
\* the concurrent callers: lines the Line Reader reads, and send_command calls made
GateLines == 2
GateSends == 2
\* the correlator: lines the Line Reader reads
CorrLines == 2
\* two waits on one id: lines the Line Reader reads
SharedLines == 4
\* the sequential caller of next_transaction_id: calls made
SeqCalls == 65540
\* the counter after a whole round: lines the Line Reader reads
WrapLines == 8
\* the inbound path: lines the Line Reader reads
DispatchLines == 3
\* unsupported and malformed packets: lines the Line Reader reads
InboundCount == 3
ReceiveCount == 3
\* the telemetry cycles: lines the Line Reader reads
CycleCount == 3
\* sending while another waits: lines the Line Reader reads
SendWaitCount == 2
\* the configuration write: lines the Line Reader reads
ConfigLines == 3
\* the failing port: lines the Line Reader reads, calls of send_command, and
\* reads that fail
PortLines == 2
PortSends == 2
PortFails == 1

----------------------------------------------------------------------------
(* Python values *)

CR == "\r"
LF == "\n"

PyNone == [kind |-> "none", items |-> <<>>]
PyStr(s) == [kind |-> "str", items |-> <<s>>]
PyList(xs) == [kind |-> "list", items |-> xs]

\* bool(x) for None, str and list
Truthy(d) ==
    \/ d.kind = "str" /\ d.items[1] # <<>>
    \/ d.kind = "list" /\ d.items # <<>>

\* the hexadecimal digits of an escape
EscDigits == <<"0", "1", "2", "3", "4", "5", "6", "7", "8", "9", "a", "b", "c", "d", "e", "f">>

IsEscDigit(h) == \E i \in 1..16 : EscDigits[i] = h

\* the number a string of hexadecimal digits denotes
RECURSIVE EscNum(_)
EscNum(h) ==
    IF h = "" THEN 0
    ELSE 16 * EscNum(SubSeq(h, 1, Len(h) - 1))
         + (CHOOSE i \in 1..16 : EscDigits[i] = SubSeq(h, Len(h), Len(h))) - 1

\* ord(c) of a character written \uXXXX or \UXXXXXXXX, and -1 for every other
\* character
CodePoint(c) ==
    IF /\ Len(c) \in {6, 10}
       /\ SubSeq(c, 1, 2) = (IF Len(c) = 6 THEN "\\u" ELSE "\\U")
       /\ \A i \in 3..Len(c) : IsEscDigit(SubSeq(c, i, i))
    THEN EscNum(SubSeq(c, 3, Len(c)))
    ELSE -1

\* the code points beyond Latin-1 that \w matches on a str: the letters, digits
\* and numeric characters of Unicode, as ranges
WideWordRanges ==
    {
     <<256, 705>>, <<710, 721>>, <<736, 740>>, <<748, 748>>, <<750, 750>>, <<880, 884>>,
     <<886, 887>>, <<890, 893>>, <<895, 895>>, <<902, 902>>, <<904, 906>>, <<908, 908>>,
     <<910, 929>>, <<931, 1013>>, <<1015, 1153>>, <<1162, 1327>>, <<1329, 1366>>,
     <<1369, 1369>>, <<1376, 1416>>, <<1488, 1514>>, <<1519, 1522>>, <<1568, 1610>>,
     <<1632, 1641>>, <<1646, 1647>>, <<1649, 1747>>, <<1749, 1749>>, <<1765, 1766>>,
     <<1774, 1788>>, <<1791, 1791>>, <<1808, 1808>>, <<1810, 1839>>, <<1869, 1957>>,
     <<1969, 1969>>, <<1984, 2026>>, <<2036, 2037>>, <<2042, 2042>>, <<2048, 2069>>,
     <<2074, 2074>>, <<2084, 2084>>, <<2088, 2088>>, <<2112, 2136>>, <<2144, 2154>>,
     <<2160, 2183>>, <<2185, 2190>>, <<2208, 2249>>, <<2308, 2361>>, <<2365, 2365>>,
     <<2384, 2384>>, <<2392, 2401>>, <<2406, 2415>>, <<2417, 2432>>, <<2437, 2444>>,
     <<2447, 2448>>, <<2451, 2472>>, <<2474, 2480>>, <<2482, 2482>>, <<2486, 2489>>,
     <<2493, 2493>>, <<2510, 2510>>, <<2524, 2525>>, <<2527, 2529>>, <<2534, 2545>>,
     <<2548, 2553>>, <<2556, 2556>>, <<2565, 2570>>, <<2575, 2576>>, <<2579, 2600>>,
     <<2602, 2608>>, <<2610, 2611>>, <<2613, 2614>>, <<2616, 2617>>, <<2649, 2652>>,
     <<2654, 2654>>, <<2662, 2671>>, <<2674, 2676>>, <<2693, 2701>>, <<2703, 2705>>,
     <<2707, 2728>>, <<2730, 2736>>, <<2738, 2739>>, <<2741, 2745>>, <<2749, 2749>>,
     <<2768, 2768>>, <<2784, 2785>>, <<2790, 2799>>, <<2809, 2809>>, <<2821, 2828>>,
     <<2831, 2832>>, <<2835, 2856>>, <<2858, 2864>>, <<2866, 2867>>, <<2869, 2873>>,
     <<2877, 2877>>, <<2908, 2909>>, <<2911, 2913>>, <<2918, 2927>>, <<2929, 2935>>,
     <<2947, 2947>>, <<2949, 2954>>, <<2958, 2960>>, <<2962, 2965>>, <<2969, 2970>>,
     <<2972, 2972>>, <<2974, 2975>>, <<2979, 2980>>, <<2984, 2986>>, <<2990, 3001>>,
     <<3024, 3024>>, <<3046, 3058>>, <<3077, 3084>>, <<3086, 3088>>, <<3090, 3112>>,
     <<3114, 3129>>, <<3133, 3133>>, <<3160, 3162>>, <<3165, 3165>>, <<3168, 3169>>,
     <<3174, 3183>>, <<3192, 3198>>, <<3200, 3200>>, <<3205, 3212>>, <<3214, 3216>>,
     <<3218, 3240>>, <<3242, 3251>>, <<3253, 3257>>, <<3261, 3261>>, <<3293, 3294>>,
     <<3296, 3297>>, <<3302, 3311>>, <<3313, 3314>>, <<3332, 3340>>, <<3342, 3344>>,
     <<3346, 3386>>, <<3389, 3389>>, <<3406, 3406>>, <<3412, 3414>>, <<3416, 3425>>,
     <<3430, 3448>>, <<3450, 3455>>, <<3461, 3478>>, <<3482, 3505>>, <<3507, 3515>>,
     <<3517, 3517>>, <<3520, 3526>>, <<3558, 3567>>, <<3585, 3632>>, <<3634, 3635>>,
     <<3648, 3654>>, <<3664, 3673>>, <<3713, 3714>>, <<3716, 3716>>, <<3718, 3722>>,
     <<3724, 3747>>, <<3749, 3749>>, <<3751, 3760>>, <<3762, 3763>>, <<3773, 3773>>,
     <<3776, 3780>>, <<3782, 3782>>, <<3792, 3801>>, <<3804, 3807>>, <<3840, 3840>>,
     <<3872, 3891>>, <<3904, 3911>>, <<3913, 3948>>, <<3976, 3980>>, <<4096, 4138>>,
     <<4159, 4169>>, <<4176, 4181>>, <<4186, 4189>>, <<4193, 4193>>, <<4197, 4198>>,
     <<4206, 4208>>, <<4213, 4225>>, <<4238, 4238>>, <<4240, 4249>>, <<4256, 4293>>,
     <<4295, 4295>>, <<4301, 4301>>, <<4304, 4346>>, <<4348, 4680>>, <<4682, 4685>>,
     <<4688, 4694>>, <<4696, 4696>>, <<4698, 4701>>, <<4704, 4744>>, <<4746, 4749>>,
     <<4752, 4784>>, <<4786, 4789>>, <<4792, 4798>>, <<4800, 4800>>, <<4802, 4805>>,
     <<4808, 4822>>, <<4824, 4880>>, <<4882, 4885>>, <<4888, 4954>>, <<4969, 4988>>,
     <<4992, 5007>>, <<5024, 5109>>, <<5112, 5117>>, <<5121, 5740>>, <<5743, 5759>>,
     <<5761, 5786>>, <<5792, 5866>>, <<5870, 5880>>, <<5888, 5905>>, <<5919, 5937>>,
     <<5952, 5969>>, <<5984, 5996>>, <<5998, 6000>>, <<6016, 6067>>, <<6103, 6103>>,
     <<6108, 6108>>, <<6112, 6121>>, <<6128, 6137>>, <<6160, 6169>>, <<6176, 6264>>,
     <<6272, 6276>>, <<6279, 6312>>, <<6314, 6314>>, <<6320, 6389>>, <<6400, 6430>>,
     <<6470, 6509>>, <<6512, 6516>>, <<6528, 6571>>, <<6576, 6601>>, <<6608, 6618>>,
     <<6656, 6678>>, <<6688, 6740>>, <<6784, 6793>>, <<6800, 6809>>, <<6823, 6823>>,
     <<6917, 6963>>, <<6981, 6988>>, <<6992, 7001>>, <<7043, 7072>>, <<7086, 7141>>,
     <<7168, 7203>>, <<7232, 7241>>, <<7245, 7293>>, <<7296, 7304>>, <<7312, 7354>>,
     <<7357, 7359>>, <<7401, 7404>>, <<7406, 7411>>, <<7413, 7414>>, <<7418, 7418>>,
     <<7424, 7615>>, <<7680, 7957>>, <<7960, 7965>>, <<7968, 8005>>, <<8008, 8013>>,
     <<8016, 8023>>, <<8025, 8025>>, <<8027, 8027>>, <<8029, 8029>>, <<8031, 8061>>,
     <<8064, 8116>>, <<8118, 8124>>, <<8126, 8126>>, <<8130, 8132>>, <<8134, 8140>>,
     <<8144, 8147>>, <<8150, 8155>>, <<8160, 8172>>, <<8178, 8180>>, <<8182, 8188>>,
     <<8304, 8305>>, <<8308, 8313>>, <<8319, 8329>>, <<8336, 8348>>, <<8450, 8450>>,
     <<8455, 8455>>, <<8458, 8467>>, <<8469, 8469>>, <<8473, 8477>>, <<8484, 8484>>,
     <<8486, 8486>>, <<8488, 8488>>, <<8490, 8493>>, <<8495, 8505>>, <<8508, 8511>>,
     <<8517, 8521>>, <<8526, 8526>>, <<8528, 8585>>, <<9312, 9371>>, <<9450, 9471>>,
     <<10102, 10131>>, <<11264, 11492>>, <<11499, 11502>>, <<11506, 11507>>, <<11517,
     11517>>, <<11520, 11557>>, <<11559, 11559>>, <<11565, 11565>>, <<11568, 11623>>,
     <<11631, 11631>>, <<11648, 11670>>, <<11680, 11686>>, <<11688, 11694>>, <<11696,
     11702>>, <<11704, 11710>>, <<11712, 11718>>, <<11720, 11726>>, <<11728, 11734>>,
     <<11736, 11742>>, <<11823, 11823>>, <<12293, 12295>>, <<12321, 12329>>, <<12337,
     12341>>, <<12344, 12348>>, <<12353, 12438>>, <<12445, 12447>>, <<12449, 12538>>,
     <<12540, 12543>>, <<12549, 12591>>, <<12593, 12686>>, <<12690, 12693>>, <<12704,
     12735>>, <<12784, 12799>>, <<12832, 12841>>, <<12872, 12879>>, <<12881, 12895>>,
     <<12928, 12937>>, <<12977, 12991>>, <<13312, 19903>>, <<19968, 42124>>, <<42192,
     42237>>, <<42240, 42508>>, <<42512, 42539>>, <<42560, 42606>>, <<42623, 42653>>,
     <<42656, 42735>>, <<42775, 42783>>, <<42786, 42888>>, <<42891, 42954>>, <<42960,
     42961>>, <<42963, 42963>>, <<42965, 42969>>, <<42994, 43009>>, <<43011, 43013>>,
     <<43015, 43018>>, <<43020, 43042>>, <<43056, 43061>>, <<43072, 43123>>, <<43138,
     43187>>, <<43216, 43225>>, <<43250, 43255>>, <<43259, 43259>>, <<43261, 43262>>,
     <<43264, 43301>>, <<43312, 43334>>, <<43360, 43388>>, <<43396, 43442>>, <<43471,
     43481>>, <<43488, 43492>>, <<43494, 43518>>, <<43520, 43560>>, <<43584, 43586>>,
     <<43588, 43595>>, <<43600, 43609>>, <<43616, 43638>>, <<43642, 43642>>, <<43646,
     43695>>, <<43697, 43697>>, <<43701, 43702>>, <<43705, 43709>>, <<43712, 43712>>,
     <<43714, 43714>>, <<43739, 43741>>, <<43744, 43754>>, <<43762, 43764>>, <<43777,
     43782>>, <<43785, 43790>>, <<43793, 43798>>, <<43808, 43814>>, <<43816, 43822>>,
     <<43824, 43866>>, <<43868, 43881>>, <<43888, 44002>>, <<44016, 44025>>, <<44032,
     55203>>, <<55216, 55238>>, <<55243, 55291>>, <<63744, 64109>>, <<64112, 64217>>,
     <<64256, 64262>>, <<64275, 64279>>, <<64285, 64285>>, <<64287, 64296>>, <<64298,
     64310>>, <<64312, 64316>>, <<64318, 64318>>, <<64320, 64321>>, <<64323, 64324>>,
     <<64326, 64433>>, <<64467, 64829>>, <<64848, 64911>>, <<64914, 64967>>, <<65008,
     65019>>, <<65136, 65140>>, <<65142, 65276>>, <<65296, 65305>>, <<65313, 65338>>,
     <<65345, 65370>>, <<65382, 65470>>, <<65474, 65479>>, <<65482, 65487>>, <<65490,
     65495>>, <<65498, 65500>>, <<65536, 65547>>, <<65549, 65574>>, <<65576, 65594>>,
     <<65596, 65597>>, <<65599, 65613>>, <<65616, 65629>>, <<65664, 65786>>, <<65799,
     65843>>, <<65856, 65912>>, <<65930, 65931>>, <<66176, 66204>>, <<66208, 66256>>,
     <<66273, 66299>>, <<66304, 66339>>, <<66349, 66378>>, <<66384, 66421>>, <<66432,
     66461>>, <<66464, 66499>>, <<66504, 66511>>, <<66513, 66517>>, <<66560, 66717>>,
     <<66720, 66729>>, <<66736, 66771>>, <<66776, 66811>>, <<66816, 66855>>, <<66864,
     66915>>, <<66928, 66938>>, <<66940, 66954>>, <<66956, 66962>>, <<66964, 66965>>,
     <<66967, 66977>>, <<66979, 66993>>, <<66995, 67001>>, <<67003, 67004>>, <<67072,
     67382>>, <<67392, 67413>>, <<67424, 67431>>, <<67456, 67461>>, <<67463, 67504>>,
     <<67506, 67514>>, <<67584, 67589>>, <<67592, 67592>>, <<67594, 67637>>, <<67639,
     67640>>, <<67644, 67644>>, <<67647, 67669>>, <<67672, 67702>>, <<67705, 67742>>,
     <<67751, 67759>>, <<67808, 67826>>, <<67828, 67829>>, <<67835, 67867>>, <<67872,
     67897>>, <<67968, 68023>>, <<68028, 68047>>, <<68050, 68096>>, <<68112, 68115>>,
     <<68117, 68119>>, <<68121, 68149>>, <<68160, 68168>>, <<68192, 68222>>, <<68224,
     68255>>, <<68288, 68295>>, <<68297, 68324>>, <<68331, 68335>>, <<68352, 68405>>,
     <<68416, 68437>>, <<68440, 68466>>, <<68472, 68497>>, <<68521, 68527>>, <<68608,
     68680>>, <<68736, 68786>>, <<68800, 68850>>, <<68858, 68899>>, <<68912, 68921>>,
     <<69216, 69246>>, <<69248, 69289>>, <<69296, 69297>>, <<69376, 69415>>, <<69424,
     69445>>, <<69457, 69460>>, <<69488, 69505>>, <<69552, 69579>>, <<69600, 69622>>,
     <<69635, 69687>>, <<69714, 69743>>, <<69745, 69746>>, <<69749, 69749>>, <<69763,
     69807>>, <<69840, 69864>>, <<69872, 69881>>, <<69891, 69926>>, <<69942, 69951>>,
     <<69956, 69956>>, <<69959, 69959>>, <<69968, 70002>>, <<70006, 70006>>, <<70019,
     70066>>, <<70081, 70084>>, <<70096, 70106>>, <<70108, 70108>>, <<70113, 70132>>,
     <<70144, 70161>>, <<70163, 70187>>, <<70272, 70278>>, <<70280, 70280>>, <<70282,
     70285>>, <<70287, 70301>>, <<70303, 70312>>, <<70320, 70366>>, <<70384, 70393>>,
     <<70405, 70412>>, <<70415, 70416>>, <<70419, 70440>>, <<70442, 70448>>, <<70450,
     70451>>, <<70453, 70457>>, <<70461, 70461>>, <<70480, 70480>>, <<70493, 70497>>,
     <<70656, 70708>>, <<70727, 70730>>, <<70736, 70745>>, <<70751, 70753>>, <<70784,
     70831>>, <<70852, 70853>>, <<70855, 70855>>, <<70864, 70873>>, <<71040, 71086>>,
     <<71128, 71131>>, <<71168, 71215>>, <<71236, 71236>>, <<71248, 71257>>, <<71296,
     71338>>, <<71352, 71352>>, <<71360, 71369>>, <<71424, 71450>>, <<71472, 71483>>,
     <<71488, 71494>>, <<71680, 71723>>, <<71840, 71922>>, <<71935, 71942>>, <<71945,
     71945>>, <<71948, 71955>>, <<71957, 71958>>, <<71960, 71983>>, <<71999, 71999>>,
     <<72001, 72001>>, <<72016, 72025>>, <<72096, 72103>>, <<72106, 72144>>, <<72161,
     72161>>, <<72163, 72163>>, <<72192, 72192>>, <<72203, 72242>>, <<72250, 72250>>,
     <<72272, 72272>>, <<72284, 72329>>, <<72349, 72349>>, <<72368, 72440>>, <<72704,
     72712>>, <<72714, 72750>>, <<72768, 72768>>, <<72784, 72812>>, <<72818, 72847>>,
     <<72960, 72966>>, <<72968, 72969>>, <<72971, 73008>>, <<73030, 73030>>, <<73040,
     73049>>, <<73056, 73061>>, <<73063, 73064>>, <<73066, 73097>>, <<73112, 73112>>,
     <<73120, 73129>>, <<73440, 73458>>, <<73648, 73648>>, <<73664, 73684>>, <<73728,
     74649>>, <<74752, 74862>>, <<74880, 75075>>, <<77712, 77808>>, <<77824, 78894>>,
     <<82944, 83526>>, <<92160, 92728>>, <<92736, 92766>>, <<92768, 92777>>, <<92784,
     92862>>, <<92864, 92873>>, <<92880, 92909>>, <<92928, 92975>>, <<92992, 92995>>,
     <<93008, 93017>>, <<93019, 93025>>, <<93027, 93047>>, <<93053, 93071>>, <<93760,
     93846>>, <<93952, 94026>>, <<94032, 94032>>, <<94099, 94111>>, <<94176, 94177>>,
     <<94179, 94179>>, <<94208, 100343>>, <<100352, 101589>>, <<101632, 101640>>,
     <<110576, 110579>>, <<110581, 110587>>, <<110589, 110590>>, <<110592, 110882>>,
     <<110928, 110930>>, <<110948, 110951>>, <<110960, 111355>>, <<113664, 113770>>,
     <<113776, 113788>>, <<113792, 113800>>, <<113808, 113817>>, <<119520, 119539>>,
     <<119648, 119672>>, <<119808, 119892>>, <<119894, 119964>>, <<119966, 119967>>,
     <<119970, 119970>>, <<119973, 119974>>, <<119977, 119980>>, <<119982, 119993>>,
     <<119995, 119995>>, <<119997, 120003>>, <<120005, 120069>>, <<120071, 120074>>,
     <<120077, 120084>>, <<120086, 120092>>, <<120094, 120121>>, <<120123, 120126>>,
     <<120128, 120132>>, <<120134, 120134>>, <<120138, 120144>>, <<120146, 120485>>,
     <<120488, 120512>>, <<120514, 120538>>, <<120540, 120570>>, <<120572, 120596>>,
     <<120598, 120628>>, <<120630, 120654>>, <<120656, 120686>>, <<120688, 120712>>,
     <<120714, 120744>>, <<120746, 120770>>, <<120772, 120779>>, <<120782, 120831>>,
     <<122624, 122654>>, <<123136, 123180>>, <<123191, 123197>>, <<123200, 123209>>,
     <<123214, 123214>>, <<123536, 123565>>, <<123584, 123627>>, <<123632, 123641>>,
     <<124896, 124902>>, <<124904, 124907>>, <<124909, 124910>>, <<124912, 124926>>,
     <<124928, 125124>>, <<125127, 125135>>, <<125184, 125251>>, <<125259, 125259>>,
     <<125264, 125273>>, <<126065, 126123>>, <<126125, 126127>>, <<126129, 126132>>,
     <<126209, 126253>>, <<126255, 126269>>, <<126464, 126467>>, <<126469, 126495>>,
     <<126497, 126498>>, <<126500, 126500>>, <<126503, 126503>>, <<126505, 126514>>,
     <<126516, 126519>>, <<126521, 126521>>, <<126523, 126523>>, <<126530, 126530>>,
     <<126535, 126535>>, <<126537, 126537>>, <<126539, 126539>>, <<126541, 126543>>,
     <<126545, 126546>>, <<126548, 126548>>, <<126551, 126551>>, <<126553, 126553>>,
     <<126555, 126555>>, <<126557, 126557>>, <<126559, 126559>>, <<126561, 126562>>,
     <<126564, 126564>>, <<126567, 126570>>, <<126572, 126578>>, <<126580, 126583>>,
     <<126585, 126588>>, <<126590, 126590>>, <<126592, 126601>>, <<126603, 126619>>,
     <<126625, 126627>>, <<126629, 126633>>, <<126635, 126651>>, <<127232, 127244>>,
     <<130032, 130041>>, <<131072, 173791>>, <<173824, 177976>>, <<177984, 178205>>,
     <<178208, 183969>>, <<183984, 191456>>, <<194560, 195101>>, <<196608, 201546>>
    }

\* the code points of the zero of every run of decimal digits beyond ASCII
\* (general category Nd); the nine code points after a zero are the digits 1..9
WideZeros ==
    {
     1632, 1776, 1984, 2406, 2534, 2662, 2790, 2918, 3046, 3174, 3302, 3430, 3558, 3664,
     3792, 3872, 4160, 4240, 6112, 6160, 6470, 6608, 6784, 6800, 6992, 7088, 7232, 7248,
     42528, 43216, 43264, 43472, 43504, 43600, 44016, 65296, 66720, 68912, 69734, 69872,
     69942, 70096, 70384, 70736, 70864, 71248, 71360, 71472, 71904, 72016, 72784, 73040,
     73120, 92768, 92864, 93008, 120782, 120792, 120802, 120812, 120822, 123200, 123632,
     125264, 130032
    }

\* a bytes value that is no valid UTF-8: it holds a byte that decodes to nothing
Undecodable(line) ==
    \E i \in 1..Len(line) :
        CodePoint(line[i]) >= 56448 /\ CodePoint(line[i]) <= 56575

\* the characters str.strip() removes: those for which str.isspace() holds
Whitespace ==
    {" ", "\t", CR, LF, "\f",
     "\\x0b", "\\x1c", "\\x1d", "\\x1e", "\\x1f", "\\x85", "\\xa0", "\\u1680",
     "\\u2000", "\\u2001", "\\u2002", "\\u2003", "\\u2004", "\\u2005", "\\u2006",
     "\\u2007", "\\u2008", "\\u2009", "\\u200a", "\\u2028", "\\u2029", "\\u202f",
     "\\u205f", "\\u3000"}

\* the white space int() accepts around a number: not the separators
\* \x1c..\x1f
IntSpace == Whitespace \ {"\\x1c", "\\x1d", "\\x1e", "\\x1f"}

\* the white space bytes.fromhex() skips: the ASCII white space
HexSpace == {" ", "\t", CR, LF, "\f", "\\x0b"}

RECURSIVE LStrip(_)
LStrip(s) == IF s # <<>> /\ Head(s) \in Whitespace THEN LStrip(Tail(s)) ELSE s

RECURSIVE RStrip(_)
RStrip(s) ==
    IF s # <<>> /\ s[Len(s)] \in Whitespace THEN RStrip(SubSeq(s, 1, Len(s) - 1)) ELSE s

\* str.strip()
Strip(s) == LStrip(RStrip(s))

\* index of the first occurrence of ch in s, 0 when there is none
IndexOf(s, ch) ==
    IF \E i \in 1..Len(s) : s[i] = ch
    THEN CHOOSE i \in 1..Len(s) : s[i] = ch /\ \A j \in 1..(i - 1) : s[j] # ch
    ELSE 0

\* str.split(sep): the list of the pieces between separators
RECURSIVE Split(_, _)
Split(s, sep) ==
    LET i == IndexOf(s, sep)
    IN IF i = 0 THEN <<s>>
       ELSE <<SubSeq(s, 1, i - 1)>> \o Split(SubSeq(s, i + 1, Len(s)), sep)

\* str.replace(ch, '')
RECURSIVE Remove(_, _)
Remove(s, ch) ==
    IF s = <<>> THEN <<>>
    ELSE IF Head(s) = ch THEN Remove(Tail(s), ch)
    ELSE <<Head(s)>> \o Remove(Tail(s), ch)

----------------------------------------------------------------------------
(* at.py: patterns and line classification *)

Digits == {"0", "1", "2", "3", "4", "5", "6", "7", "8", "9"}
Letters == {"A", "B", "C", "D", "E", "F", "G", "H", "I", "J", "K", "L", "M", "N", "O", "P",
            "Q", "R", "S", "T", "U", "V", "W", "X", "Y", "Z",
            "a", "b", "c", "d", "e", "f", "g", "h", "i", "j", "k", "l", "m", "n", "o", "p",
            "q", "r", "s", "t", "u", "v", "w", "x", "y", "z"}
\* the letters and digits of Latin-1 beyond ASCII
LatinWordChars ==
    {"\\xaa", "\\xb2", "\\xb3", "\\xb5", "\\xb9", "\\xba", "\\xbc", "\\xbd", "\\xbe",
     "\\xc0", "\\xc1", "\\xc2", "\\xc3", "\\xc4", "\\xc5", "\\xc6", "\\xc7", "\\xc8",
     "\\xc9", "\\xca", "\\xcb", "\\xcc", "\\xcd", "\\xce", "\\xcf", "\\xd0", "\\xd1",
     "\\xd2", "\\xd3", "\\xd4", "\\xd5", "\\xd6", "\\xd8", "\\xd9", "\\xda", "\\xdb",
     "\\xdc", "\\xdd", "\\xde", "\\xdf", "\\xe0", "\\xe1", "\\xe2", "\\xe3", "\\xe4",
     "\\xe5", "\\xe6", "\\xe7", "\\xe8", "\\xe9", "\\xea", "\\xeb", "\\xec", "\\xed",
     "\\xee", "\\xef", "\\xf0", "\\xf1", "\\xf2", "\\xf3", "\\xf4", "\\xf5", "\\xf6",
     "\\xf8", "\\xf9", "\\xfa", "\\xfb", "\\xfc", "\\xfd", "\\xfe", "\\xff"}

\* \w of the regular expressions, on a str, within Latin-1
WordChars == Digits \cup Letters \cup {"_"} \cup LatinWordChars

\* \w of the regular expressions, on a str: Unicode letters and digits and '_'
IsWord(c) ==
    \/ c \in WordChars
    \/ \E r \in WideWordRanges : r[1] <= CodePoint(c) /\ CodePoint(c) <= r[2]

\* re.search(r'AT([\+\%][^=?]+)', str) finds a match
AtExtractorMatches(s) ==
    \E i \in 1..Len(s) :
        /\ i + 3 <= Len(s)
        /\ s[i] = "A" /\ s[i + 1] = "T"
        /\ s[i + 2] \in {"+", "%"}
        /\ s[i + 3] \notin {"=", "?"}

ATE0 == <<"A", "T", "E", "0">>

\* `command` of send_command is truthy: the call goes through the gate
Gated(s) == s = ATE0 \/ AtExtractorMatches(s)

\* re.search(r'^%(\w+):(.+)$', line_string): the tag runs to the first ':' and is
\* all word characters; '.' matches no LF and '$' allows one final LF
UrcRest(s) ==
    LET r == SubSeq(s, IndexOf(s, ":") + 1, Len(s))
    IN IF r # <<>> /\ r[Len(r)] = LF THEN SubSeq(r, 1, Len(r) - 1) ELSE r

UrcMatches(s) ==
    LET k == IndexOf(s, ":")
    IN /\ s # <<>> /\ s[1] = "%"
       /\ k >= 3
       /\ \A j \in 2..(k - 1) : IsWord(s[j])
       /\ UrcRest(s) # <<>>
       /\ \A j \in 1..Len(UrcRest(s)) : UrcRest(s)[j] # LF

\* AtUrc(match.group(1), match.group(2))
UrcOf(s) == [urc |-> SubSeq(s, 2, IndexOf(s, ":") - 1), data |-> UrcRest(s)]

\* parts = line_string.split(':', 1); resp = parts[1].strip() or the line stripped
RespOf(s) ==
    LET k == IndexOf(s, ":")
    IN IF k > 0 THEN Strip(SubSeq(s, k + 1, Len(s))) ELSE Strip(s)

LineEmpty == <<CR, LF>>
LineOK == <<"O", "K", CR, LF>>
LineERROR == <<"E", "R", "R", "O", "R", CR, LF>>
LineUrc == <<"%", "S", ":", "1", CR, LF>>
LineData == <<"7", CR, LF>>
LineLabel == <<"+", "C", ":", " ", "8", CR, LF>>
LineBlank == <<"+", "C", ":", CR, LF>>
\* the bytes ff 37 0d 0a: no valid UTF-8
LineNoUtf8 == <<"\\udcff", "7", CR, LF>>

\* what ser.readline() may return
SerialLines == {LineEmpty, LineOK, LineERROR, LineUrc, LineData, LineLabel, LineBlank}

\* lines of the socket service: the event that announces inbound data, and the
\* answers to AT%SOCKETDATA="RECEIVE" carrying an acknowledgment of transaction 3
\* (the first the producers take, after the two of the startup of client.py line
\* 324-343), a configuration read and a configuration write of transaction 7
LineSockEv == <<"%", "S", "O", "C", "K", "E", "T", "E", "V", ":", "1", ",", "1", "\r", "\n">>
LineRecvAck == <<"%", "S", "O", "C", "K", "E", "T", "D", "A", "T", "A", ":", "1", ",", "5", ",", "0", ",", "\"", "0", "1", "4", "1", "0", "0", "0", "0", "0", "3", "\"", ",", "\"", "h", "\"", ",", "1", "\r", "\n">>
\* the same for transaction 4
LineRecvAck2 == <<"%", "S", "O", "C", "K", "E", "T", "D", "A", "T", "A", ":", "1", ",", "5", ",", "0", ",", "\"", "0", "1", "4", "1", "0", "0", "0", "0", "0", "4", "\"", ",", "\"", "h", "\"", ",", "1", "\r", "\n">>
LineRecvRead == <<"%", "S", "O", "C", "K", "E", "T", "D", "A", "T", "A", ":", "1", ",", "5", ",", "0", ",", "\"", "0", "1", "4", "3", "5", "2", "0", "0", "0", "7", "\"", ",", "\"", "h", "\"", ",", "1", "\r", "\n">>
LineRecvWrite == <<"%", "S", "O", "C", "K", "E", "T", "D", "A", "T", "A", ":", "1", ",", "5", ",", "0", ",", "\"", "0", "1", "4", "3", "5", "7", "0", "0", "0", "7", "\"", ",", "\"", "h", "\"", ",", "1", "\r", "\n">>

\* answers carrying a packet of the unsupported command 'X' of transaction 7, and
\* a payload that is no hexadecimal string
LineRecvOther == <<"%", "S", "O", "C", "K", "E", "T", "D", "A", "T", "A", ":", "1", ",", "5", ",", "0", ",", "\"", "0", "1", "5", "8", "0", "0", "0", "0", "0", "7", "\"", ",", "\"", "h", "\"", ",", "1", "\r", "\n">>
LineRecvBad == <<"%", "S", "O", "C", "K", "E", "T", "D", "A", "T", "A", ":", "1", ",", "5", ",", "0", ",", "\"", "0", "1", "4", "g", "0", "0", "0", "0", "0", "7", "\"", ",", "\"", "h", "\"", ",", "1", "\r", "\n">>

\* what ser.readline() may return when such packets arrive
InboundLines == {LineEmpty, LineOK, LineSockEv, LineRecvOther, LineRecvBad}

\* what ser.readline() may return while the socket is in use
SocketLines == {LineEmpty, LineOK, LineSockEv, LineRecvAck, LineRecvRead, LineRecvWrite}

CmdReceive == <<"A", "T", "%", "S", "O", "C", "K", "E", "T", "D", "A", "T", "A", "=", "\"", "R", "E", "C", "E", "I", "V", "E", "\"", ",", "1", ",", "1", "5", "0", "0">>
CmdSend == <<"A", "T", "%", "S", "O", "C", "K", "E", "T", "D", "A", "T", "A", "=", "\"", "S", "E", "N", "D", "\"">>

\* the strings passed to send_command
CmdGated == <<"A", "T", "+", "C", "G", "S", "N">>
CmdPlain == <<"A", "T", "I">>
CmdStrings == {ATE0, CmdGated, CmdPlain}

\* the threads that call send_command: the main thread runs the startup sequence
\* alone (client.py line 141-217), the others run concurrently after it
Producers == {"telemetry", "motion", "dispatcher"}
Callers == {"main"} \cup Producers

\* AtResponse.__init__: split is set only when data is a str
AtResponse(command, success, data) ==
    [command |-> command, success |-> success, data |-> data,
     split |-> IF data.kind = "str"
               THEN LET parts == Split(data.items[1], ",")
                    IN PyList([i \in 1..Len(parts) |-> Remove(parts[i], "\"")])
               ELSE PyNone]

NoResponse == [command |-> <<>>, success |-> FALSE, data |-> PyNone, split |-> PyNone]

----------------------------------------------------------------------------
(* State *)

VARIABLES
    responseEvent,    \* AtTerminal.responseEvent: the flag of the Event
    responseData,     \* AtTerminal.responseData
    responseSuccess,  \* AtTerminal.responseSuccess
    urcQueue,         \* AtTerminal.urcQueue
    rpc,              \* Line Reader: the statement of read() it is at
    rresp,            \* Line Reader: the local `resp`
    rtmp,             \* Line Reader: the value loaded by line 100
    linesLeft,        \* lines the serial port still delivers
    spc,              \* per caller: the statement of send_command it is at
    scmd,             \* per caller: the argument `str`
    atr,              \* per caller: the AtResponse last returned
    written,          \* what ser.write() has been given, in order
    sendsLeft,        \* send_command calls still to be made
    hist              \* history, per caller: see Fresh below

VARIABLES
    transaction_id,   \* client.py: the global transaction_id
    ack_events,       \* client.py: _ack_events, transaction id -> Event
    acked,            \* client.py: _acked_txn_ids
    ack_lock,         \* client.py: _ack_lock, its holder or "free"
    ack_event,        \* client.py: the flag of the legacy ack_event
    evFlag,           \* the flag of every Event created by wait_for_ack, by identity
    ppc,              \* per producer: the statement it is at
    ptmp,             \* per producer: the counter value loaded by next_transaction_id
    ptxn,             \* per producer: the local txn_id
    pev,              \* per producer: the local ev of wait_for_ack
    pack,             \* per producer: what wait_for_ack returned
    cyclesLeft,       \* per producer: cycles still to be started
    dpc,              \* dispatcher: the statement of the acknowledgment branch it is at
    dtxn,             \* dispatcher: txn_id of the packet being handled
    dev,              \* dispatcher: the local ev
    \* acknowledgment packets still to arrive
    begun,            \* history: ids the dispatcher has marked acknowledged (line 261-263)
    completed,        \* history: ids whose resolution is finished (line 261-265)
    issued            \* history: number of next_transaction_id calls that returned

VARIABLES
    rline,            \* Line Reader: the local `line_string`
    ser_open,         \* AtTerminal.ser.is_open
    stopping,         \* AtTerminal.stopping
    failsLeft,        \* read failures the transport still produces
    xpc,              \* shutdown: the statement of __del__ it is at
    feed,             \* the lines the serial port may deliver
    location_type,    \* config.py: what get_config('location.type') returns
    motion,           \* motion_thread: its arguments and the half of its loop it is in
    enq,              \* history: every AtUrc put on urcQueue, in order
    deq,              \* history: every AtUrc returned by wait_for_urc, in order
    durc,             \* dispatcher: the local `urc`
    dcmd,             \* dispatcher: the local `command`
    ddata,            \* dispatcher: the local `data`
    dcfg,             \* dispatcher: the local `cfg`
    cfgOld,           \* history: the configuration when the write in hand was decoded
    server_address,   \* client.py: the global server_address
    reporting_interval, \* client.py: the global reporting_interval
    reading_interval, \* client.py: the global reading_interval
    sent,             \* packets the dispatcher has passed to send(), in order
    tel,              \* telemetry_thread: what a cycle has loaded and computed
    calc,             \* a call of a function of the codec: its arguments and its result
    rraw,             \* Line Reader: the local `line` while a terminator is handled,
                      \* and the line that did not decode
    aliased           \* callers whose AtResponse holds the very list responseData refers to

portVars == <<ser_open, stopping, failsLeft, xpc, feed, location_type, motion>>

urcHist == <<enq, deq>>

dispVars == <<durc, dcmd, ddata, dcfg, cfgOld, server_address, reporting_interval, reading_interval, sent>>

auxVars == <<tel, calc, rraw, aliased>>

extVars == <<rline, auxVars, portVars, urcHist, dispVars>>

\* extVars without aliased
extRest == <<rline, tel, calc, rraw, portVars, urcHist, dispVars>>

corrVars == <<transaction_id, ack_events, acked, ack_lock, ack_event, evFlag,
              ppc, ptmp, ptxn, pev, pack, cyclesLeft, dpc, dtxn, dev, begun, completed, issued>>

gateVars == <<responseEvent, responseData, responseSuccess, urcQueue, rpc, rresp, rtmp,
              linesLeft, spc, scmd, atr, written, sendsLeft, hist>>

vars == <<gateVars, corrVars, extVars>>

\* a call that has started its reset and not yet built its result
InFlight(c) == spc[c] \in {"l127", "l128", "l132", "l133", "l135", "l135d"}

\* the call is resetting the shared accumulator
Resetting(c) == spc[c] \in {"l127", "l128"}

\* the Line Reader is in the middle of accumulating a line
Accumulating == rpc \in {"l98", "l99", "l100", "l100w", "l101", "l103"}

\* the call has written its command and not yet returned
Written(c) == spc[c] \in {"l133", "l135", "l135d"}

\* History of a call. alone: since the call began its reset no other call has
\* touched the gate, no line was read before the reset was complete, and no
\* line was read or half accumulated while the result was built. lines: the
\* lines read since the reset, while alone. timeout: responseEvent.wait timed
\* out. after: the lines ser.readline() has returned since the call wrote its
\* command, whatever else has happened on the gate, as long as they are one
\* response-data line and then OK and the wait has not timed out; any other
\* run of lines is kept as Other.
Fresh == [alone |-> FALSE, lines |-> <<>>, timeout |-> FALSE, after |-> <<>>]

\* the history of caller c after the Line Reader has read a line, but for
\* the lines since the write
NoteAlone(c, kind, line) ==
    IF ~hist[c].alone THEN hist[c]
    ELSE IF Resetting(c) \/ spc[c] = "l135d" THEN [hist[c] EXCEPT !.alone = FALSE, !.lines = <<>>]
    ELSE IF InFlight(c)
         THEN [hist[c] EXCEPT !.lines = Append(@, [kind |-> kind, line |-> line])]
    ELSE hist[c]

\* lines since the write that are not one response-data line and then OK
Other == <<[kind |-> "other", line |-> <<>>]>>

\* the lines since the write, h, and one line more
NoteAfter(h, kind, line) ==
    IF \/ h = <<>> /\ kind = "data"
       \/ Len(h) = 1 /\ h[1].kind = "data" /\ kind = "ok"
    THEN Append(h, [kind |-> kind, line |-> line])
    ELSE Other

\* the histories after the Line Reader has read a line
Note(kind, line) ==
    [c \in Callers |->
        [NoteAlone(c, kind, line) EXCEPT !.after =
            IF Written(c) THEN NoteAfter(@, kind, line) ELSE @]]

\* the histories after caller c has touched the gate
Touch(c) == [d \in Callers |-> IF d # c THEN [hist[d] EXCEPT !.alone = FALSE, !.lines = <<>>] ELSE hist[d]]

GateInit(lines, sends) ==
    /\ responseEvent = FALSE
    /\ responseData = PyNone
    /\ responseSuccess = FALSE
    /\ urcQueue = <<>>
    /\ rpc = "l73"
    /\ rresp = <<>>
    /\ rtmp = PyNone
    /\ linesLeft = lines
    /\ spc = [c \in Callers |-> "idle"]
    /\ scmd = [c \in Callers |-> <<>>]
    /\ atr = [c \in Callers |-> NoResponse]
    /\ written = <<>>
    /\ sendsLeft = sends
    /\ hist = [c \in Callers |-> Fresh]

\* the configuration client.py starts with (config.py DEFAULTS, or the command line)
ConfServer == <<"h", ":", "1">>
DefaultInterval == 120
DefaultReadings == 60

\* None as the value of `urc`: no AtUrc has an empty tag
NoUrc == [urc |-> <<>>, data |-> <<>>]

\* the dispatcher holds no decoded configuration
NoCfg == [server |-> PyNone, interval |-> PyNone, readings |-> PyNone]
NoOld == <<>>

\* telemetry_thread has loaded and computed nothing yet; no function of the
\* codec is called
NoTel == [reporting |-> 0, reading |-> 0, rc |-> 0, back |-> 0, interval |-> 0, sleep |-> 0]
NoCalc == [op |-> "none"]

\* config.py line 76-109: get_config('location.type') of a configuration file
\* that says 'simulated', and of one without the key (None)
LocSimulated == "simulated"
NoLocationType == "None"

\* client.py line 454-460: motion_thread is started with motionDuration and
\* motionInterval of the configuration file, both positive; its loop is in its
\* first half (Motion Start, line 394-417) or its second (Motion Stop, line 419-444)
MotionArgs(motion_duration, motion_interval) ==
    [motion_duration |-> motion_duration, motion_interval |-> motion_interval,
     half |-> "start"]

\* the port is open (AtTerminal.open), nothing has been queued or handled yet
ExtStart(lines, fails, types) ==
    /\ location_type \in types
    /\ motion = MotionArgs(60, 300)
    /\ rline = <<>>
    /\ tel = NoTel
    /\ aliased = {}
    /\ calc = NoCalc
    /\ rraw = <<>>
    /\ ser_open = TRUE
    /\ stopping = FALSE
    /\ failsLeft = fails
    /\ xpc = "run"
    /\ feed = lines
    /\ enq = <<>>
    /\ deq = <<>>
    /\ durc = NoUrc
    /\ dcmd = <<>>
    /\ ddata = <<>>
    /\ dcfg = NoCfg
    /\ cfgOld = NoOld
    /\ server_address = ConfServer
    /\ reporting_interval = DefaultInterval
    /\ reading_interval = DefaultReadings
    /\ sent = <<>>

\* the same without a configuration file
ExtInit(lines, fails) == ExtStart(lines, fails, {NoLocationType})

----------------------------------------------------------------------------
(* at.py: AtTerminal.read, one line at a time *)

\* line 73-76: an empty line is skipped
ReadEmpty ==
    /\ rpc = "l73" /\ linesLeft > 0
    /\ ser_open /\ LineEmpty \in feed
    /\ linesLeft' = linesLeft - 1
    /\ hist' = Note("empty", LineEmpty)
    /\ UNCHANGED <<corrVars, extVars, responseEvent, responseData, responseSuccess, urcQueue, rpc, rresp, rtmp,
                   spc, scmd, atr, written, sendsLeft>>

\* a fault variant: every terminator counts as a success
SuccessAlways(line) == TRUE

\* line 77-78 and 81-82: the pending success flag a terminator gives
SuccessOf(line) == line = LineOK

\* line 77-78 and 81-82: the terminator sets the pending success flag
ReadTerminator ==
    /\ rpc = "l73" /\ linesLeft > 0
    /\ ser_open
    /\ \E line \in feed \cap {LineOK, LineERROR} :
        /\ rraw' = line
        /\ responseSuccess' = SuccessOf(line)
        /\ hist' = Note(IF line = LineOK THEN "ok" ELSE "error", line)
    /\ linesLeft' = linesLeft - 1
    /\ rpc' = "l79"
    /\ UNCHANGED <<corrVars, rline, tel, calc, aliased, portVars, urcHist, dispVars, responseEvent,
                   responseData, urcQueue, rresp, rtmp, spc, scmd, atr, written, sendsLeft>>

\* line 79 and 83: responseEvent.set()
ReadSignal ==
    /\ rpc = "l79"
    /\ responseEvent' = TRUE
    /\ rraw' = <<>>
    /\ rpc' = "l73"
    /\ UNCHANGED <<corrVars, rline, tel, calc, aliased, portVars, urcHist, dispVars, responseData,
                   responseSuccess, urcQueue, rresp, rtmp, linesLeft, spc, scmd, atr, written,
                   sendsLeft, hist>>

\* fault variant: an event is dropped when the queue already holds one
UrcPutBounded(q, u) == IF q = <<>> THEN <<u>> ELSE q

\* line 94: self.urcQueue.put(...) on the unbounded queue.Queue of line 55
UrcPut(q, u) == Append(q, u)

\* line 88-97: any other line that decodes; a URC is queued (no `continue` follows the put),
\* and resp is computed for the accumulation below
ReadLine ==
    /\ rpc = "l73" /\ linesLeft > 0
    /\ ser_open
    /\ \E line \in feed \ {LineEmpty, LineOK, LineERROR} :
        /\ ~Undecodable(line)
        /\ rline' = line
        /\ urcQueue' = IF UrcMatches(line) THEN UrcPut(urcQueue, UrcOf(line)) ELSE urcQueue
        /\ enq' = IF UrcMatches(line) THEN Append(enq, UrcOf(line)) ELSE enq
        /\ rresp' = RespOf(line)
        /\ hist' = Note(IF UrcMatches(line) THEN "urc" ELSE "data", line)
    /\ linesLeft' = linesLeft - 1
    /\ rpc' = "l98"
    /\ UNCHANGED <<corrVars, auxVars, portVars, deq, dispVars, responseEvent, responseData,
                   responseSuccess, rtmp, spc, scmd, atr, written, sendsLeft>>

\* line 98: if self.responseData
ReadTestData ==
    /\ rpc = "l98"
    /\ rpc' = IF Truthy(responseData) THEN "l99" ELSE "l103"
    /\ UNCHANGED <<corrVars, extVars, responseEvent, responseData, responseSuccess, urcQueue, rresp, rtmp, linesLeft,
                   spc, scmd, atr, written, sendsLeft, hist>>

\* line 99: if isinstance(self.responseData, str)
ReadTestStr ==
    /\ rpc = "l99"
    /\ rpc' = IF responseData.kind = "str" THEN "l100" ELSE "l101"
    /\ UNCHANGED <<corrVars, extVars, responseEvent, responseData, responseSuccess, urcQueue, rresp, rtmp, linesLeft,
                   spc, scmd, atr, written, sendsLeft, hist>>

\* None as an element of a list: no str, so no sequence of characters
NoneItem == <<"None">>

\* the element a list holds for a value: a str, or None after a concurrent reset
Element(d) == IF d.kind = "str" THEN d.items[1] ELSE NoneItem

\* line 100: self.responseData = [self.responseData], the load
ReadWrapLoad ==
    /\ rpc = "l100"
    /\ rtmp' = responseData
    /\ rpc' = "l100w"
    /\ UNCHANGED <<corrVars, extVars, responseEvent, responseData, responseSuccess, urcQueue, rresp, linesLeft,
                   spc, scmd, atr, written, sendsLeft, hist>>

\* line 100: self.responseData = [self.responseData], the store
ReadWrap ==
    /\ rpc = "l100w"
    /\ responseData' = PyList(<<Element(rtmp)>>)
    /\ rtmp' = PyNone
    /\ rpc' = "l101"
    /\ aliased' = {}
    /\ UNCHANGED <<corrVars, extRest, responseEvent, responseSuccess, urcQueue, rresp, linesLeft,
                   spc, scmd, atr, written, sendsLeft, hist>>

\* line 101: self.responseData.append(resp); on a value that is no list the
\* AttributeError reaches `except Exception` (line 110-112) and the thread ends
ReadAppend ==
    /\ rpc = "l101"
    /\ IF responseData.kind = "list"
       THEN /\ responseData' = PyList(Append(responseData.items, rresp))
            /\ atr' = [c \in Callers |-> IF c \in aliased
                                          THEN [atr[c] EXCEPT !.data = responseData']
                                          ELSE atr[c]]
            /\ rpc' = "l73"
       ELSE /\ UNCHANGED <<responseData, atr>>
            /\ rpc' = "exit"
    /\ UNCHANGED <<corrVars, extVars, responseEvent, responseSuccess, urcQueue, rresp, rtmp, linesLeft,
                   spc, scmd, written, sendsLeft, hist>>

\* line 103: self.responseData = resp
ReadStore ==
    /\ rpc = "l103"
    /\ responseData' = PyStr(rresp)
    /\ rpc' = "l73"
    /\ aliased' = {}
    /\ UNCHANGED <<corrVars, extRest, responseEvent, responseSuccess, urcQueue, rresp, rtmp, linesLeft,
                   spc, scmd, atr, written, sendsLeft, hist>>

Read ==
    \/ ReadEmpty
    \/ ReadTerminator
    \/ ReadSignal
    \/ ReadLine
    \/ ReadTestData
    \/ ReadTestStr
    \/ ReadWrapLoad
    \/ ReadWrap
    \/ ReadAppend
    \/ ReadStore

----------------------------------------------------------------------------
(* at.py: AtTerminal.send_command *)


\* line 116-125: the call, and the choice of the branch
SendCall(c) ==
    /\ spc[c] = "idle" /\ sendsLeft > 0
    /\ \E s \in CmdStrings :
        /\ scmd' = [scmd EXCEPT ![c] = s]
        /\ spc' = [spc EXCEPT ![c] = IF Gated(s) THEN "l126" ELSE "l139"]
    /\ sendsLeft' = sendsLeft - 1
    /\ hist' = [hist EXCEPT ![c] = Fresh]
    /\ UNCHANGED <<corrVars, extVars, responseEvent, responseData, responseSuccess, urcQueue, rpc, rresp, rtmp,
                   linesLeft, atr, written>>

\* line 126: self.responseEvent.clear()
SendClear(c) ==
    /\ spc[c] = "l126"
    /\ responseEvent' = FALSE
    /\ spc' = [spc EXCEPT ![c] = "l127"]
    /\ hist' = [Touch(c) EXCEPT ![c].alone =
                    rpc = "l73" /\ \A d \in Callers \ {c} : ~InFlight(d)]
    /\ UNCHANGED <<corrVars, extVars, responseData, responseSuccess, urcQueue, rpc, rresp, rtmp, linesLeft,
                   scmd, atr, written, sendsLeft>>

\* line 127: self.responseData = None
SendResetData(c) ==
    /\ spc[c] = "l127"
    /\ responseData' = PyNone
    /\ spc' = [spc EXCEPT ![c] = "l128"]
    /\ hist' = Touch(c)
    /\ aliased' = {}
    /\ UNCHANGED <<corrVars, extRest, responseEvent, responseSuccess, urcQueue, rpc, rresp, rtmp, linesLeft,
                   scmd, atr, written, sendsLeft>>

\* line 128: self.responseSuccess = False; the reset is complete
SendResetSuccess(c) ==
    /\ spc[c] = "l128"
    /\ responseSuccess' = FALSE
    /\ spc' = [spc EXCEPT ![c] = "l132"]
    /\ hist' = Touch(c)
    /\ UNCHANGED <<corrVars, extVars, responseEvent, responseData, urcQueue, rpc, rresp, rtmp, linesLeft,
                   scmd, atr, written, sendsLeft>>

\* line 130-132: self.ser.write(output); on a port that is not open
\* serial.Serial.write raises PortNotOpenError, which send_command does not
\* catch: nothing is written and the call ends with the exception
SendWrite(c) ==
    /\ spc[c] = "l132"
    /\ written' = IF ser_open THEN Append(written, scmd[c]) ELSE written
    /\ spc' = [spc EXCEPT ![c] = IF ser_open THEN "l133" ELSE "raised"]
    /\ hist' = Touch(c)
    /\ UNCHANGED <<corrVars, extVars, responseEvent, responseData, responseSuccess, urcQueue, rpc, rresp, rtmp,
                   linesLeft, scmd, atr, sendsLeft>>

\* line 133: self.responseEvent.wait(timeout=5) returns: the flag is set, or the
\* five seconds have passed; the lines of a call that has timed out are no
\* response-data line and OK read within the wait
SendWait(c) ==
    /\ spc[c] = "l133"
    /\ hist' = [hist EXCEPT ![c].timeout = ~responseEvent,
                            ![c].after = IF responseEvent THEN @ ELSE Other]
    /\ spc' = [spc EXCEPT ![c] = "l135"]
    /\ UNCHANGED <<corrVars, extVars, responseEvent, responseData, responseSuccess, urcQueue, rpc, rresp, rtmp,
                   linesLeft, scmd, atr, written, sendsLeft>>

\* line 135: AtResponse(str, self.responseSuccess, ...): the first argument read
SendLoadSuccess(c) ==
    /\ spc[c] = "l135"
    /\ atr' = [atr EXCEPT ![c] = [NoResponse EXCEPT !.success = responseSuccess]]
    /\ spc' = [spc EXCEPT ![c] = "l135d"]
    /\ hist' = [hist EXCEPT ![c].alone = @ /\ ~Accumulating]
    /\ aliased' = aliased \ {c}
    /\ UNCHANGED <<corrVars, extRest, responseEvent, responseData, responseSuccess, urcQueue, rpc, rresp,
                   rtmp, linesLeft, scmd, written, sendsLeft>>

\* line 135 and 141-143: atr = AtResponse(str, ..., self.responseData); return atr
SendResult(c) ==
    /\ spc[c] = "l135d"
    /\ atr' = [atr EXCEPT ![c] = AtResponse(scmd[c], atr[c].success, responseData)]
    /\ spc' = [spc EXCEPT ![c] = "done"]
    /\ aliased' = IF responseData.kind = "list" THEN aliased \cup {c} ELSE aliased \ {c}
    /\ UNCHANGED <<corrVars, extRest, responseEvent, responseData, responseSuccess, urcQueue, rpc, rresp,
                   rtmp, linesLeft, scmd, written, sendsLeft, hist>>

\* line 137-143: no command was recognised: write, and report success at
\* once; on a port that is not open the write of line 139 raises
\* PortNotOpenError and the call ends with the exception
SendPlain(c) ==
    /\ spc[c] = "l139"
    /\ written' = IF ser_open THEN Append(written, scmd[c]) ELSE written
    /\ atr' = IF ser_open THEN [atr EXCEPT ![c] = AtResponse(scmd[c], TRUE, PyNone)] ELSE atr
    /\ spc' = [spc EXCEPT ![c] = IF ser_open THEN "done" ELSE "raised"]
    /\ hist' = Touch(c)
    /\ aliased' = aliased \ {c}
    /\ UNCHANGED <<corrVars, extRest, responseEvent, responseData, responseSuccess, urcQueue, rpc, rresp, rtmp,
                   linesLeft, scmd, sendsLeft>>

\* the caller goes on to its next call; a caller whose call has raised makes
\* no other
SendNext(c) ==
    /\ spc[c] = "done" /\ sendsLeft > 0
    /\ spc' = [spc EXCEPT ![c] = "idle"]
    /\ scmd' = [scmd EXCEPT ![c] = <<>>]
    /\ atr' = [atr EXCEPT ![c] = NoResponse]
    /\ hist' = [hist EXCEPT ![c] = Fresh]
    /\ aliased' = aliased \ {c}
    /\ UNCHANGED <<corrVars, extRest, responseEvent, responseData, responseSuccess, urcQueue, rpc, rresp, rtmp,
                   linesLeft, written, sendsLeft>>

SendCommand(c) ==
    \/ SendCall(c)
    \/ SendClear(c)
    \/ SendResetData(c)
    \/ SendResetSuccess(c)
    \/ SendWrite(c)
    \/ SendWait(c)
    \/ SendLoadSuccess(c)
    \/ SendResult(c)
    \/ SendPlain(c)
    \/ SendNext(c)

----------------------------------------------------------------------------
(* client.py: the transaction correlator *)

\* the threads that obtain transaction ids and wait for acknowledgments
Waiters == {"main", "telemetry", "motion"}

Modulus == 65536

NoTxn == -1
NoEv == 0

CorrInit(cycles) ==
    /\ transaction_id = 0
    /\ ack_events = <<>>
    /\ acked = {}
    /\ ack_lock = "free"
    /\ ack_event = FALSE
    /\ evFlag = <<>>
    /\ ppc = [p \in Waiters |-> "top"]
    /\ ptmp = [p \in Waiters |-> 0]
    /\ ptxn = [p \in Waiters |-> NoTxn]
    /\ pev = [p \in Waiters |-> NoEv]
    /\ pack = [p \in Waiters |-> FALSE]
    /\ cyclesLeft = cycles
    /\ dpc = "l234"
    /\ dtxn = NoTxn
    /\ dev = NoEv
    /\ begun = {}
    /\ completed = {}
    /\ issued = 0

\* fault variant: the counter wraps one value early
NextValueWrapsEarly(n) == (n + 1) % 65535

\* line 89: (transaction_id + 1) % 65536
NextValue(n) == (n + 1) % Modulus

\* line 324, 335, 348, 395, 420 and 89: a transaction starts; transaction_id is
\* loaded. The main thread goes from one wait_for_ack to the next call.
NextIdLoad(p) ==
    /\ ppc[p] = "top" \/ (p = "main" /\ ppc[p] = "ret")
    /\ cyclesLeft[p] > 0
    /\ cyclesLeft' = [cyclesLeft EXCEPT ![p] = @ - 1]
    /\ ptmp' = [ptmp EXCEPT ![p] = transaction_id]
    /\ ptxn' = [ptxn EXCEPT ![p] = NoTxn]
    /\ pev' = [pev EXCEPT ![p] = NoEv]
    /\ pack' = [pack EXCEPT ![p] = FALSE]
    /\ ppc' = [ppc EXCEPT ![p] = "l89"]
    /\ UNCHANGED <<gateVars, extVars, transaction_id, ack_events, acked, ack_lock, ack_event,
                   evFlag, dpc, dtxn, dev, begun, completed, issued>>

\* line 89: the incremented value is stored in transaction_id
NextIdStore(p) ==
    /\ ppc[p] = "l89"
    /\ transaction_id' = NextValue(ptmp[p])
    /\ ppc' = [ppc EXCEPT ![p] = "l90"]
    /\ UNCHANGED <<gateVars, extVars, ack_events, acked, ack_lock, ack_event, evFlag, ptmp, ptxn,
                   pev, pack, cyclesLeft, dpc, dtxn, dev, begun, completed,
                   issued>>

\* line 90: return transaction_id; the caller goes on at `next`
NextIdReturn(p, next) ==
    /\ ppc[p] = "l90"
    /\ ptxn' = [ptxn EXCEPT ![p] = transaction_id]
    /\ issued' = issued + 1
    /\ ppc' = [ppc EXCEPT ![p] = next]
    /\ UNCHANGED <<gateVars, extVars, transaction_id, ack_events, acked, ack_lock, ack_event,
                   evFlag, ptmp, pev, pack, cyclesLeft, dpc, dtxn, dev, begun,
                   completed>>

\* fault variants: any remembered id counts; no id is ever found
AnyAcked(id) == acked # {}
NeverAcked(id) == FALSE

\* line 121: txn_id in _acked_txn_ids
AlreadyAcked(id) == id \in acked

\* fault variant: pop leaves the entry in the mapping
WithEntry(m, id) == m

\* a mapping without the entry of id: pop(id, None)
Without(m, id) == [k \in DOMAIN m \ {id} |-> m[k]]

\* fault variant: the mapping is never consulted, a waiter is always created
EventOfNothing(m, id) == NoEv

\* line 123: _ack_events.get(txn_id)
EventOf(m, id) == IF id \in DOMAIN m THEN m[id] ELSE NoEv

\* line 120: with _ack_lock (wait_for_ack is always called with a txn_id: the
\* legacy branch of line 111-117 is never entered)
WaitAcquire(p) ==
    /\ ppc[p] = "l120" /\ ack_lock = "free"
    /\ ack_lock' = p
    /\ ppc' = [ppc EXCEPT ![p] = "l121"]
    /\ UNCHANGED <<gateVars, extVars, transaction_id, ack_events, acked, ack_event, evFlag, ptmp,
                   ptxn, pev, pack, cyclesLeft, dpc, dtxn, dev, begun,
                   completed, issued>>

\* fault variant: the lock is still held when the wait begins
LockKept(p) == p

\* line 120-127: the lock after the `with _ack_lock:` block has been left
LockOnExit(p) == "free"

\* line 121-126: the fast path, or the registration of the waiter
WaitRegister(p) ==
    /\ ppc[p] = "l121"
    /\ ack_lock' = LockOnExit(p)
    /\ IF AlreadyAcked(ptxn[p])
       THEN /\ pack' = [pack EXCEPT ![p] = TRUE]
            /\ ppc' = [ppc EXCEPT ![p] = "ret"]
            /\ UNCHANGED <<ack_events, evFlag, pev>>
       ELSE /\ IF EventOf(ack_events, ptxn[p]) = NoEv
               THEN /\ evFlag' = Append(evFlag, FALSE)
                    /\ pev' = [pev EXCEPT ![p] = Len(evFlag) + 1]
                    /\ ack_events' = (ptxn[p] :> (Len(evFlag) + 1)) @@ ack_events
               ELSE /\ pev' = [pev EXCEPT ![p] = EventOf(ack_events, ptxn[p])]
                    /\ UNCHANGED <<ack_events, evFlag>>
            /\ ppc' = [ppc EXCEPT ![p] = "l129"]
            /\ UNCHANGED pack
    /\ UNCHANGED <<gateVars, extVars, transaction_id, acked, ack_event, ptmp, ptxn, cyclesLeft,
                   dpc, dtxn, dev, begun, completed, issued>>

\* line 129: ev.wait(timeout) returns True: the flag is set
WaitWake(p) ==
    /\ ppc[p] = "l129" /\ evFlag[pev[p]]
    /\ ppc' = [ppc EXCEPT ![p] = "l131"]
    /\ UNCHANGED <<gateVars, extVars, transaction_id, ack_events, acked, ack_lock, ack_event,
                   evFlag, ptmp, ptxn, pev, pack, cyclesLeft, dpc, dtxn, dev, begun, completed, issued>>

\* line 129 and 136-137: ev.wait(timeout) times out with the flag clear
WaitTimeout(p) ==
    /\ ppc[p] = "l129" /\ ~evFlag[pev[p]]
    /\ pack' = [pack EXCEPT ![p] = FALSE]
    /\ ppc' = [ppc EXCEPT ![p] = "ret"]
    /\ UNCHANGED <<gateVars, extVars, transaction_id, ack_events, acked, ack_lock, ack_event,
                   evFlag, ptmp, ptxn, pev, cyclesLeft, dpc, dtxn, dev, begun,
                   completed, issued>>

\* line 131: with _ack_lock
CleanupAcquire(p) ==
    /\ ppc[p] = "l131" /\ ack_lock = "free"
    /\ ack_lock' = p
    /\ ppc' = [ppc EXCEPT ![p] = "l132"]
    /\ UNCHANGED <<gateVars, extVars, transaction_id, ack_events, acked, ack_event, evFlag, ptmp,
                   ptxn, pev, pack, cyclesLeft, dpc, dtxn, dev, begun,
                   completed, issued>>

\* fault variant: the cleanup discards the id from the memory
CleanupAckedDiscards(id) == acked \ {id}

\* line 133: _acked_txn_ids.add(txn_id)
CleanupAcked(id) == acked \cup {id}

\* line 132-134: the mapping is cleaned up and True is returned
Cleanup(p) ==
    /\ ppc[p] = "l132"
    /\ ack_events' = Without(ack_events, ptxn[p])
    /\ acked' = CleanupAcked(ptxn[p])
    /\ ack_lock' = "free"
    /\ pack' = [pack EXCEPT ![p] = TRUE]
    /\ ppc' = [ppc EXCEPT ![p] = "ret"]
    /\ UNCHANGED <<gateVars, extVars, transaction_id, ack_event, evFlag, ptmp, ptxn, pev,
                   cyclesLeft, dpc, dtxn, dev, begun, completed, issued>>

WaitForAck(p) ==
    \/ WaitAcquire(p)
    \/ WaitRegister(p)
    \/ WaitWake(p)
    \/ WaitTimeout(p)
    \/ CleanupAcquire(p)
    \/ Cleanup(p)

\* line 261: with _ack_lock
ResolveAcquire ==
    /\ dpc = "l261" /\ ack_lock = "free"
    /\ ack_lock' = "dispatcher"
    /\ dpc' = "l262"
    /\ UNCHANGED <<gateVars, extVars, transaction_id, ack_events, acked, ack_event, evFlag, ppc,
                   ptmp, ptxn, pev, pack, cyclesLeft, dtxn, dev, begun,
                   completed, issued>>

\* fault variant: the resolution does not remember the id
ResolveAckedForgets(id) == acked

\* line 262: _acked_txn_ids.add(txn_id)
ResolveAcked(id) == acked \cup {id}

\* line 262-263: the id is remembered and its waiter taken out of the mapping
Resolve ==
    /\ dpc = "l262"
    /\ acked' = ResolveAcked(dtxn)
    /\ dev' = EventOf(ack_events, dtxn)
    /\ ack_events' = Without(ack_events, dtxn)
    /\ ack_lock' = "free"
    /\ begun' = begun \cup {dtxn}
    /\ dpc' = "l264"
    /\ UNCHANGED <<gateVars, extVars, transaction_id, ack_event, evFlag, ppc, ptmp, ptxn, pev,
                   pack, cyclesLeft, dtxn, completed, issued>>

\* fault variant: the resolution sets every Event
SetEveryEvent(ev) == [e \in DOMAIN evFlag |-> TRUE]

\* line 265: ev.set()
SetEvent(ev) == [evFlag EXCEPT ![ev] = TRUE]

\* line 264-265: if ev is not None: ev.set()
ResolveSet ==
    /\ dpc = "l264"
    /\ evFlag' = IF dev # NoEv THEN SetEvent(dev) ELSE evFlag
    /\ completed' = completed \cup {dtxn}
    /\ dpc' = "l267"
    /\ UNCHANGED <<gateVars, extVars, transaction_id, ack_events, acked, ack_lock, ack_event, ppc,
                   ptmp, ptxn, pev, pack, cyclesLeft, dtxn, dev, begun, issued>>

\* line 267: ack_event.set(), and the dispatcher goes back to wait_for_urc
ResolveAny ==
    /\ dpc = "l267"
    /\ ack_event' = TRUE
    /\ dev' = NoEv
    /\ dpc' = "l234"
    /\ UNCHANGED <<gateVars, extVars, transaction_id, ack_events, acked, ack_lock, evFlag, ppc,
                   ptmp, ptxn, pev, pack, cyclesLeft, dtxn, begun, completed,
                   issued>>

----------------------------------------------------------------------------
(* decoder.py: PacketDecoder *)

HexDigits == <<"0", "1", "2", "3", "4", "5", "6", "7", "8", "9", "a", "b", "c", "d", "e", "f">>
HexUpper == <<"0", "1", "2", "3", "4", "5", "6", "7", "8", "9", "A", "B", "C", "D", "E", "F">>

IsHex(c) == \E i \in 1..16 : HexDigits[i] = c \/ HexUpper[i] = c

HexVal(c) == (CHOOSE i \in 1..16 : HexDigits[i] = c \/ HexUpper[i] = c) - 1

\* bytes.fromhex(s): pairs of hex digits, white space between the pairs is
\* skipped; <<-1>> marks the ValueError
RECURSIVE FromHex(_)
FromHex(s) ==
    IF s = <<>> THEN <<>>
    ELSE IF Head(s) \in HexSpace THEN FromHex(Tail(s))
    ELSE IF Len(s) >= 2 /\ IsHex(s[1]) /\ IsHex(s[2])
         THEN LET rest == FromHex(SubSeq(s, 3, Len(s)))
              IN IF rest = <<-1>> THEN <<-1>>
                 ELSE <<16 * HexVal(s[1]) + HexVal(s[2])>> \o rest
    ELSE <<-1>>

\* parse_response_data, line 22-30: the iteration over data_str; a str is
\* iterated by character, a list by element
Units(d) ==
    IF d.kind = "str" THEN [i \in 1..Len(d.items[1]) |-> <<d.items[1][i]>>] ELSE d.items

RECURSIVE ParseParts(_, _, _, _)
ParseParts(units, parts, current_part, in_quotes) ==
    IF units = <<>>
    THEN IF current_part # <<>> THEN Append(parts, current_part) ELSE parts
    ELSE LET char == Head(units)
         IN IF char = <<"\"">>
            THEN ParseParts(Tail(units), parts, current_part \o char, ~in_quotes)
            ELSE IF char = <<",">> /\ ~in_quotes
            THEN ParseParts(Tail(units), Append(parts, current_part), <<>>, in_quotes)
            ELSE ParseParts(Tail(units), parts, current_part \o char, in_quotes)

\* str.strip('"')
RECURSIVE StripQuotes(_)
StripQuotes(s) ==
    IF s # <<>> /\ Head(s) = "\"" THEN StripQuotes(Tail(s))
    ELSE IF s # <<>> /\ s[Len(s)] = "\"" THEN StripQuotes(SubSeq(s, 1, Len(s) - 1))
    ELSE s

\* fault variant: the third parameter is taken for the fourth
ParseResponseDataThird(d) ==
    LET parts == ParseParts(Units(d), <<>>, <<>>, FALSE)
    IN IF Len(parts) >= 4 THEN PyStr(StripQuotes(parts[3])) ELSE PyNone

\* a fault variant: three fields are enough, and the third is taken
ParseResponseDataShort(d) ==
    LET parts == ParseParts(Units(d), <<>>, <<>>, FALSE)
    IN IF Len(parts) >= 4 THEN PyStr(StripQuotes(parts[4]))
       ELSE IF Len(parts) = 3 THEN PyStr(StripQuotes(parts[3]))
       ELSE PyNone

\* parse_response_data: the fourth parameter without its quotes, or None; on a
\* list that holds None `current_part += char` raises TypeError and line 44-46
\* return None
ParseResponseData(d) ==
    LET parts == ParseParts(Units(d), <<>>, <<>>, FALSE)
    IN IF \E i \in 1..Len(Units(d)) : Units(d)[i] = NoneItem THEN PyNone
       ELSE IF Len(parts) >= 4 THEN PyStr(StripQuotes(parts[4])) ELSE PyNone

\* fault variant: the transaction id is read in little-endian order
TxnOfLittle(data) == IF Len(data) > 4 THEN data[4] + 256 * data[5] ELSE NoTxn

\* decode_packet_header, line 76: int.from_bytes(data[3:5], byteorder='big'), or None
TxnOf(data) == IF Len(data) > 4 THEN 256 * data[4] + data[5] ELSE NoTxn

\* decode_packet_header: ok is FALSE for the (None, None, None) of line 83;
\* version -1, command <<>> and txn_id NoTxn stand for None; a character of
\* command is held as its code (chr of line 69-70)
DecodePacketHeader(hex_str) ==
    LET data == FromHex(hex_str)
    IN IF data = <<-1>>
       THEN [ok |-> FALSE, version |-> -1, command |-> <<>>, txn_id |-> NoTxn, data |-> <<>>]
       ELSE [ok |-> TRUE,
             version |-> IF Len(data) > 0 THEN data[1] ELSE -1,
             command |-> IF Len(data) > 2 THEN <<data[2], data[3]>> ELSE <<>>,
             txn_id |-> TxnOf(data),
             data |-> SubSeq(data, 6, Len(data))]

----------------------------------------------------------------------------
(* client.py: ack_handler_thread, from wait_for_urc to the reply *)

gateShared == <<responseEvent, responseData, responseSuccess, rpc, rresp, rtmp, linesLeft>>

corrRest == <<transaction_id, ack_events, acked, ack_lock, ack_event, evFlag, ppc, ptmp,
              ptxn, pev, pack, cyclesLeft, begun, completed, issued>>

confVars == <<server_address, reporting_interval, reading_interval>>

\* fault variant: the event is handed out but stays in the queue
UrcLeftKeeps(q) == q

\* Queue.get: what is left in the queue after the head has been taken
UrcLeft(q) == Tail(q)

\* fault variant: the event last handed out is returned again on a timeout
UrcResultStale(q) ==
    IF q # <<>> THEN Head(q) ELSE IF deq # <<>> THEN deq[Len(deq)] ELSE NoUrc

\* at.py line 146-151: what wait_for_urc returns: the head of the queue, or None
\* when queue.Empty is raised after the timeout
UrcResult(q) == IF q # <<>> THEN Head(q) ELSE NoUrc

\* line 234, at.py line 147-148: urcQueue.get(True, 5) returns an event
WaitUrcGet ==
    /\ dpc = "l234" /\ urcQueue # <<>>
    /\ durc' = UrcResult(urcQueue)
    /\ urcQueue' = UrcLeft(urcQueue)
    /\ deq' = Append(deq, UrcResult(urcQueue))
    /\ dpc' = "l235"
    /\ UNCHANGED <<gateShared, spc, scmd, atr, written, sendsLeft, hist, corrRest, dtxn, dev,
                   rline, auxVars, portVars, enq, dcmd, ddata, dcfg, cfgOld, confVars, sent>>

\* line 234, at.py line 147-151: the queue stays empty for the five seconds
WaitUrcEmpty ==
    /\ dpc = "l234" /\ urcQueue = <<>>
    /\ durc' = UrcResult(urcQueue)
    /\ dpc' = "l235"
    /\ UNCHANGED <<gateShared, urcQueue, spc, scmd, atr, written, sendsLeft, hist, corrRest,
                   dtxn, dev, rline, auxVars, portVars, enq, deq, dcmd, ddata, dcfg, cfgOld, confVars, sent>>

TagSocketEv == <<"S", "O", "C", "K", "E", "T", "E", "V">>

\* line 235-236: if urc is not None: if urc.urc == 'SOCKETEV'
DispTest ==
    /\ dpc = "l235"
    /\ dpc' = IF durc # NoUrc /\ durc.urc = TagSocketEv THEN "l237" ELSE "l234"
    /\ UNCHANGED <<gateVars, corrRest, dtxn, dev, rline, auxVars, portVars, urcHist, durc, dcmd,
                   ddata, dcfg, cfgOld, confVars, sent>>

\* line 237: term.send_command('AT%SOCKETDATA="RECEIVE",1,1500') is called
\* (at.py line 116-125)
DispReceiveCall ==
    /\ dpc = "l237" /\ spc["dispatcher"] = "idle"
    /\ scmd' = [scmd EXCEPT !["dispatcher"] = CmdReceive]
    /\ spc' = [spc EXCEPT !["dispatcher"] = IF Gated(CmdReceive) THEN "l126" ELSE "l139"]
    /\ hist' = [hist EXCEPT !["dispatcher"] = Fresh]
    /\ dpc' = "l237w"
    /\ UNCHANGED <<gateShared, urcQueue, atr, written, sendsLeft, corrRest, dtxn, dev,
                   extVars>>

\* line 237: send_command has returned rsp, or has raised: the try of line
\* 232 catches KeyboardInterrupt only (line 315), and the exception of the
\* write ends the thread
DispReceiveReturn ==
    /\ dpc = "l237w" /\ spc["dispatcher"] \in {"done", "raised"}
    /\ spc' = [spc EXCEPT !["dispatcher"] = "idle"]
    /\ scmd' = [scmd EXCEPT !["dispatcher"] = <<>>]
    /\ hist' = [hist EXCEPT !["dispatcher"] = Fresh]
    /\ dpc' = IF spc["dispatcher"] = "raised" THEN "dead" ELSE "l241"
    /\ UNCHANGED <<gateShared, urcQueue, atr, written, sendsLeft, corrRest, dtxn, dev,
                   extVars>>

\* the codes of the characters the command is compared with
OrdA == 65
OrdC == 67
OrdR == 82
OrdW == 87
OrdNul == 0
OrdSpace == 32

\* line 257: command and command[0] == 'A'
IsAck(command) == command # <<>> /\ command[1] = OrdA

\* line 268: command == 'CR' or (command[0] == 'C' and command[1] in ('R', '\0'))
IsConfigRead(command) ==
    command # <<>> /\ command[1] = OrdC /\ command[2] \in {OrdR, OrdNul}

\* line 280: command == 'CW' or (command[0] == 'W' and command[1] in ('\0', ' '))
IsConfigWrite(command) ==
    /\ command # <<>>
    /\ \/ command = <<OrdC, OrdW>>
       \/ command[1] = OrdW /\ command[2] \in {OrdNul, OrdSpace}

\* fault variant: an unsupported command is answered like a configuration read
BranchOfReplies(command) ==
    IF IsAck(command) THEN "l261"
    ELSE IF IsConfigWrite(command) THEN "l286"
    ELSE "l272"

\* the branch of line 257-311 taken for a decoded command
BranchOf(command) ==
    IF IsAck(command) THEN "l261"
    ELSE IF IsConfigRead(command) THEN "l272"
    ELSE IF IsConfigWrite(command) THEN "l286"
    ELSE "l234"

\* line 241-257, 268, 280, 310: rsp is examined, the packet decoded and the
\* branch chosen; the (None, None, None) of a failed decode cannot be unpacked
\* into four names and the ValueError ends the thread
DispDecode ==
    /\ dpc = "l241"
    /\ LET rsp == atr["dispatcher"]
           packet_hex == IF rsp.success /\ Truthy(rsp.data)
                         THEN ParseResponseData(rsp.data) ELSE PyNone
           decoded == DecodePacketHeader(packet_hex.items[1])
       IN IF ~Truthy(packet_hex)
          THEN /\ dpc' = "l234"
               /\ UNCHANGED <<dcmd, dtxn, ddata>>
          ELSE IF ~decoded.ok
          THEN /\ dpc' = "dead"
               /\ UNCHANGED <<dcmd, dtxn, ddata>>
          ELSE /\ dcmd' = decoded.command
               /\ dtxn' = decoded.txn_id
               /\ ddata' = decoded.data
               /\ dpc' = BranchOf(decoded.command)
    /\ atr' = [atr EXCEPT !["dispatcher"] = NoResponse]
    /\ aliased' = aliased \ {"dispatcher"}
    /\ UNCHANGED <<gateShared, urcQueue, spc, scmd, written, sendsLeft, hist, corrRest, dev,
                   rline, tel, calc, rraw, portVars, urcHist, durc, dcfg, cfgOld, confVars, sent>>

DigitSeq == <<"0", "1", "2", "3", "4", "5", "6", "7", "8", "9">>

\* str(n) of an int
RECURSIVE NatStr(_)
NatStr(n) == IF n < 10 THEN <<DigitSeq[n + 1]>> ELSE NatStr(n \div 10) \o <<DigitSeq[(n % 10) + 1]>>

StrOf(n) == IF n < 0 THEN <<"-">> \o NatStr(0 - n) ELSE NatStr(n)

\* s without the white space int() accepts around a number
RECURSIVE IntStrip(_)
IntStrip(s) ==
    IF s # <<>> /\ Head(s) \in IntSpace THEN IntStrip(Tail(s))
    ELSE IF s # <<>> /\ s[Len(s)] \in IntSpace THEN IntStrip(SubSeq(s, 1, Len(s) - 1))
    ELSE s

\* a decimal digit for int(): an ASCII digit or a digit of another script
IsDecimal(c) ==
    \/ c \in Digits
    \/ \E z \in WideZeros : z <= CodePoint(c) /\ CodePoint(c) <= z + 9

\* the value of a decimal digit
DecimalOf(c) ==
    IF c \in Digits THEN (CHOOSE i \in 1..10 : DigitSeq[i] = c) - 1
    ELSE CodePoint(c) - (CHOOSE z \in WideZeros : z <= CodePoint(c) /\ CodePoint(c) <= z + 9)

\* int(s) of a str succeeds: an optional sign and decimal digits of any script,
\* single underscores between digits, white space around. int() raises
\* ValueError for more than 4300 digits (sys.get_int_max_str_digits() of
\* Python 3.11): leading zeros count, the sign, the underscores and the white
\* space around do not
IsInt(s) ==
    LET t == IntStrip(s)
        body == IF t # <<>> /\ Head(t) \in {"+", "-"} THEN Tail(t) ELSE t
    IN /\ body # <<>>
       /\ \A i \in 1..Len(body) : body[i] = "_" \/ IsDecimal(body[i])
       /\ body[1] # "_" /\ body[Len(body)] # "_"
       /\ \A i \in 1..(Len(body) - 1) : ~(body[i] = "_" /\ body[i + 1] = "_")
       /\ Cardinality({i \in 1..Len(body) : body[i] # "_"}) <= 4300

RECURSIVE NatOf(_)
NatOf(body) ==
    IF body = <<>> THEN 0
    ELSE IF body[Len(body)] = "_" THEN NatOf(SubSeq(body, 1, Len(body) - 1))
    ELSE 10 * NatOf(SubSeq(body, 1, Len(body) - 1))
         + DecimalOf(body[Len(body)])

\* int(s) of a str for which it succeeds
IntOf(s) ==
    LET t == IntStrip(s)
    IN IF Head(t) = "-" THEN 0 - NatOf(Tail(t))
       ELSE IF Head(t) = "+" THEN NatOf(Tail(t))
       ELSE NatOf(t)

\* fault variant: the reply takes a new id from the counter
ReplyPacketCounter(txn_id) ==
    [event |-> "C", txn_id |-> NextValue(transaction_id),
     kv |-> [server |-> server_address,
             interval |-> StrOf(reporting_interval),
             readings |-> StrOf(reading_interval)]]

\* line 272-277 and 302-307: the reply packet, TelemetryPacket(imei, time,
\* txn_id, 'C', DataKv({server, interval, readings})); imei and the time play
\* no part below
ReplyPacket(txn_id) ==
    [event |-> "C", txn_id |-> txn_id,
     kv |-> [server |-> server_address,
             interval |-> StrOf(reporting_interval),
             readings |-> StrOf(reading_interval)]]

\* line 272-278, 302-308 and 92-94: the reply is built and send() calls
\* term.send_command with the packet
ConfigReply ==
    /\ dpc \in {"l272", "l302"} /\ spc["dispatcher"] = "idle"
    /\ sent' = Append(sent, ReplyPacket(dtxn))
    /\ scmd' = [scmd EXCEPT !["dispatcher"] = CmdSend]
    /\ spc' = [spc EXCEPT !["dispatcher"] = IF Gated(CmdSend) THEN "l126" ELSE "l139"]
    /\ hist' = [hist EXCEPT !["dispatcher"] = Fresh]
    /\ dpc' = "l95"
    /\ UNCHANGED <<gateShared, urcQueue, atr, written, sendsLeft, corrRest, dtxn, dev,
                   rline, auxVars, portVars, urcHist, durc, dcmd, ddata, dcfg, cfgOld, confVars>>

\* line 94-95 and 312: send_command has returned; the dispatcher goes back to
\* wait_for_urc. When send_command has raised, the exception ends the thread
ConfigReplyReturn ==
    /\ dpc = "l95" /\ spc["dispatcher"] \in {"done", "raised"}
    /\ spc' = [spc EXCEPT !["dispatcher"] = "idle"]
    /\ scmd' = [scmd EXCEPT !["dispatcher"] = <<>>]
    /\ atr' = [atr EXCEPT !["dispatcher"] = NoResponse]
    /\ hist' = [hist EXCEPT !["dispatcher"] = Fresh]
    /\ dcfg' = NoCfg
    /\ cfgOld' = NoOld
    /\ dpc' = IF spc["dispatcher"] = "raised" THEN "dead" ELSE "l234"
    /\ aliased' = aliased \ {"dispatcher"}
    /\ UNCHANGED <<gateShared, urcQueue, written, sendsLeft, corrRest, dtxn, dev,
                   rline, tel, calc, rraw, portVars, urcHist, durc, dcmd, ddata, confVars, sent>>

\* the values a key of the decoded configuration may have: absent, or a string
CfgServers == {PyNone, PyStr(<<>>), PyStr(<<"s">>)}
CfgNumbers == {PyNone, PyStr(<<"3", "0">>), PyStr(<<"x">>), PyStr(<<"0">>), PyStr(<<"-", "5">>)}

\* what ConfigPacket.decode(imei, txn_id, data).to_dict() may return
CfgDicts == [server : CfgServers, interval : CfgNumbers, readings : CfgNumbers]

\* line 286-287 and 297-299: the payload is decoded into cfg, or the decoding
\* raises and the except clause of line 297 leaves the configuration alone
ConfigDecode ==
    /\ dpc = "l286"
    /\ cfgOld' = <<server_address, reporting_interval, reading_interval>>
    /\ \/ /\ \E cfg \in CfgDicts : dcfg' = cfg
          /\ dpc' = "l288"
       \/ /\ dcfg' = NoCfg
          /\ dpc' = "l302"
    /\ UNCHANGED <<gateVars, corrRest, dtxn, dev, rline, auxVars, portVars, urcHist, durc, dcmd,
                   ddata, confVars, sent>>

\* cfg.get(key, default)
CfgGet(value, default) == IF value = PyNone THEN default ELSE value

\* line 288: server_address = cfg.get('server', server_address) or server_address
ConfigServer ==
    /\ dpc = "l288"
    /\ server_address' = IF Truthy(CfgGet(dcfg.server, PyStr(server_address)))
                         THEN CfgGet(dcfg.server, PyStr(server_address)).items[1]
                         ELSE server_address
    /\ dpc' = "l290"
    /\ UNCHANGED <<gateVars, corrRest, dtxn, dev, rline, auxVars, portVars, urcHist, durc, dcmd,
                   ddata, dcfg, cfgOld, reporting_interval, reading_interval, sent>>

\* fault variant: a value that is no number becomes 0
NewIntervalZero(value, old) ==
    IF value = PyNone THEN old ELSE IF IsInt(value.items[1]) THEN IntOf(value.items[1]) ELSE 0

\* line 289-292 and 293-296: int(cfg.get(key, old)), the old value when int() raises
NewInterval(value, old) ==
    IF value = PyNone THEN old ELSE IF IsInt(value.items[1]) THEN IntOf(value.items[1]) ELSE old

\* line 289-292: reporting_interval = int(cfg.get('interval', reporting_interval))
ConfigInterval ==
    /\ dpc = "l290"
    /\ reporting_interval' = NewInterval(dcfg.interval, reporting_interval)
    /\ dpc' = "l294"
    /\ UNCHANGED <<gateVars, corrRest, dtxn, dev, rline, auxVars, portVars, urcHist, durc, dcmd,
                   ddata, dcfg, cfgOld, server_address, reading_interval, sent>>

\* line 293-296: reading_interval = int(cfg.get('readings', reading_interval))
ConfigReadings ==
    /\ dpc = "l294"
    /\ reading_interval' = NewInterval(dcfg.readings, reading_interval)
    /\ dpc' = "l302"
    /\ UNCHANGED <<gateVars, corrRest, dtxn, dev, rline, auxVars, portVars, urcHist, durc, dcmd,
                   ddata, dcfg, cfgOld, server_address, reporting_interval, sent>>

\* the part of send_command that follows the call
GateCall(c) ==
    \/ SendClear(c)
    \/ SendResetData(c)
    \/ SendResetSuccess(c)
    \/ SendWrite(c)
    \/ SendWait(c)
    \/ SendLoadSuccess(c)
    \/ SendResult(c)

AckHandler ==
    \/ WaitUrcGet
    \/ WaitUrcEmpty
    \/ DispTest
    \/ DispReceiveCall
    \/ DispReceiveReturn
    \/ DispDecode
    \/ ResolveAcquire
    \/ Resolve
    \/ ResolveSet
    \/ ResolveAny
    \/ ConfigReply
    \/ ConfigReplyReturn
    \/ ConfigDecode
    \/ ConfigServer
    \/ ConfigInterval
    \/ ConfigReadings
    \/ GateCall("dispatcher")

----------------------------------------------------------------------------
(* client.py: telemetry_thread, the reads of the configuration in one cycle *)

\* line 355-357: rc = max(1, int(reporting_interval // reading_interval)), and
\* 1 when the division raises
RcOf(reporting, reading) ==
    LET quotient == IF reading > 0 THEN reporting \div reading
                    ELSE (0 - reporting) \div (0 - reading)
    IN IF reading = 0 THEN 1
       ELSE IF quotient < 1 THEN 1 ELSE quotient

\* what one cycle computes from a configuration read once
CycleOf(reporting, reading) ==
    [rc |-> RcOf(reporting, reading),
     back |-> RcOf(reporting, reading) * reading,
     interval |-> reading,
     sleep |-> reporting]

\* the value of a configuration global at the moment a statement loads it
TelLoad(field) ==
    IF field = "reporting" THEN reporting_interval ELSE reading_interval

corrButPpc == <<transaction_id, ack_events, acked, ack_lock, ack_event, evFlag, ptmp,
                ptxn, pev, pack, cyclesLeft, dpc, dtxn, dev, begun, completed,
                issued>>

\* what a cycle that loads the configuration (reporting, reading) at every
\* statement holds at line 382, after `slept` at the sleep of the cycle before
TelOf(reporting, reading, slept) ==
    [reporting |-> reporting, reading |-> reading,
     rc |-> RcOf(reporting, reading), back |-> RcOf(reporting, reading) * reading,
     interval |-> reading, sleep |-> slept]

\* line 355: reporting_interval is loaded; only telemetry_thread has the line
TelLoadReporting(p) ==
    /\ p = "telemetry" /\ ppc[p] = "l355"
    /\ tel' = [tel EXCEPT !.reporting = TelLoad("reporting")]
    /\ ppc' = [ppc EXCEPT ![p] = "l355b"]
    /\ UNCHANGED <<gateVars, corrButPpc, rline, calc, rraw, aliased, portVars, urcHist, dispVars>>

\* line 355-357: reading_interval is loaded and rc computed
TelRc(p) ==
    /\ p = "telemetry" /\ ppc[p] = "l355b"
    /\ tel' = [tel EXCEPT !.reading = TelLoad("reading"),
                          !.rc = RcOf(tel.reporting, TelLoad("reading"))]
    /\ ppc' = [ppc EXCEPT ![p] = "l358"]
    /\ UNCHANGED <<gateVars, corrButPpc, rline, calc, rraw, aliased, portVars, urcHist, dispVars>>

\* line 358: first_reading = timestamp - (rc * int(reading_interval))
TelFirstReading(p) ==
    /\ p = "telemetry" /\ ppc[p] = "l358"
    /\ tel' = [tel EXCEPT !.back = tel.rc * TelLoad("reading")]
    /\ ppc' = [ppc EXCEPT ![p] = "l367"]
    /\ UNCHANGED <<gateVars, corrButPpc, rline, calc, rraw, aliased, portVars, urcHist, dispVars>>

\* line 367: DataMulti(battery, rssi, first_reading, int(reading_interval), records)
TelDataMulti(p) ==
    /\ p = "telemetry" /\ ppc[p] = "l367"
    /\ tel' = [tel EXCEPT !.interval = TelLoad("reading")]
    /\ ppc' = [ppc EXCEPT ![p] = "l368"]
    /\ UNCHANGED <<gateVars, corrButPpc, rline, calc, rraw, aliased, portVars, urcHist, dispVars>>

\* the monotonic clock at the call of time.sleep, the time since the machine
\* started: its whole seconds, from none to the largest 32-bit number, and the
\* nanoseconds of its fraction
Clocks == {0, 2147483647}
ClockNanos == {0, 999999999}

\* line 386, 417 and 444: time.sleep raises ValueError for a negative length,
\* OverflowError for a length of 9223372037 seconds or more, and OSError for a
\* length whose end, counted in nanoseconds on the monotonic clock, is 2^63
\* (9223372036 s and 854775808 ns) or more. The seconds are added in millions
\* and units.
SleepRaises(seconds, clock, nanos) ==
    LET end == (seconds \div 1000000) + (clock \div 1000000)
                + (((seconds % 1000000) + (clock % 1000000)) \div 1000000)
        rest == ((seconds % 1000000) + (clock % 1000000)) % 1000000
    IN \/ seconds < 0
       \/ end > 9223
       \/ end = 9223 /\ rest > 372036
       \/ end = 9223 /\ rest = 372036 /\ nanos >= 854775808

\* line 355-367: the records of the cycle are built from the configuration
TelemetryCycle(p) ==
    \/ TelLoadReporting(p)
    \/ TelRc(p)
    \/ TelFirstReading(p)
    \/ TelDataMulti(p)

\* line 285-296: the dispatcher's write of the configuration
ConfigWrite ==
    \/ ConfigDecode
    \/ ConfigServer
    \/ ConfigInterval
    \/ ConfigReadings

----------------------------------------------------------------------------
(* client.py: telemetry_thread, the commands of one cycle; sensors.py *)

CmdCsq == <<"A", "T", "+", "C", "S", "Q">>
CmdMeas == <<"A", "T", "%", "M", "E", "A", "S", "=", "\"", "9", "5", "\"">>

\* answers of the modem to AT+CSQ and to AT%MEAS="95"
LineCsq == <<"+", "C", "S", "Q", ":", " ", "2", "0", ",", "9", "9", CR, LF>>
LineMeas == <<"%", "M", "E", "A", "S", ":", " ", "E", "C", "I", "D", ":", "1", ",", "2", ",",
              "3", ",", "4", ",", "5", ",", "6", ",", "7", ",", "8", ",", "9", ",", "5", "0",
              CR, LF>>

\* what ser.readline() may return during a cycle
CycleLines == {LineEmpty, LineOK, LineERROR, LineCsq, LineMeas}

\* the statement of the cycle that follows a call of send_command
CycleCalls == [l351 |-> CmdCsq, l372 |-> CmdMeas, l382 |-> CmdSend]

\* line 351, 372 and 382 (398, 403, 412 and 423, 429, 440 of motion_thread):
\* read_rssi, read_serving_cell or send calls
\* term.send_command (sensors.py line 67 and 83, client.py line 94)
CycleCall(p) ==
    /\ ppc[p] \in DOMAIN CycleCalls /\ spc[p] = "idle"
    /\ scmd' = [scmd EXCEPT ![p] = CycleCalls[ppc[p]]]
    /\ spc' = [spc EXCEPT ![p] = IF Gated(CycleCalls[ppc[p]]) THEN "l126" ELSE "l139"]
    /\ hist' = [hist EXCEPT ![p] = Fresh]
    /\ ppc' = [ppc EXCEPT ![p] = IF @ = "l351" THEN "l351w"
                                 ELSE IF @ = "l372" THEN "l372w" ELSE "l382w"]
    /\ UNCHANGED <<gateShared, urcQueue, atr, written, sendsLeft, corrButPpc, extVars>>

\* sensors.py line 68: int(rsp.split[0]) if rsp.success else 0xFF raises: split is
\* None, or its first element is no number
RssiRaises(rsp) ==
    rsp.success /\ (rsp.split = PyNone \/ ~IsInt(rsp.split.items[1]))

\* sensors.py line 84-93 and client.py line 373: read_serving_cell returns None
\* and cell['mcc'] raises, or split has no ten elements, or int(rsp.split[9]) raises
CellRaises(rsp) ==
    \/ ~rsp.success
    \/ rsp.split = PyNone
    \/ Len(rsp.split.items) < 10
    \/ ~IsInt(rsp.split.items[10])

\* the statement that follows the return of a call, or "ended" when the call's
\* result makes the cycle raise: line 387-388 catch the exception outside the
\* loop and the thread function returns. After read_rssi telemetry_thread
\* builds its records (line 355) and motion_thread tests the location type
\* (line 399 and 425, the statement of line 368)
AfterCall(p, at, rsp) ==
    IF at = "l351w"
    THEN (IF RssiRaises(rsp) THEN "ended" ELSE IF p = "telemetry" THEN "l355" ELSE "l368")
    ELSE IF at = "l372w" THEN (IF CellRaises(rsp) THEN "ended" ELSE "l382")
    ELSE "l120"

\* line 351, 372-373 and 382: send_command has returned and its result is
\* used; when send_command has raised, line 387-388 catch the exception
\* outside the loop and the thread function returns
CycleReturn(p) ==
    /\ ppc[p] \in {"l351w", "l372w", "l382w"} /\ spc[p] \in {"done", "raised"}
    /\ ppc' = [ppc EXCEPT ![p] = IF spc[p] = "raised" THEN "ended"
                                 ELSE AfterCall(p, @, atr[p])]
    /\ spc' = [spc EXCEPT ![p] = "idle"]
    /\ scmd' = [scmd EXCEPT ![p] = <<>>]
    /\ hist' = [hist EXCEPT ![p] = Fresh]
    /\ aliased' = aliased \ {p}
    /\ UNCHANGED <<gateShared, urcQueue, atr, written, sendsLeft, corrButPpc, extRest>>

\* line 368-370, 399-401 and 425-427: with the location type 'simulated' the
\* location is sensors.read_loc(), which sends no command, and the packet is
\* sent next; with any other the serving cell is read
LocationTest(p) ==
    /\ ppc[p] = "l368"
    /\ ppc' = [ppc EXCEPT ![p] = IF location_type = LocSimulated THEN "l382" ELSE "l372"]
    /\ UNCHANGED <<gateVars, extVars, corrButPpc>>

\* line 386, 417 and 444: time.sleep(int(...)) after wait_for_ack has returned:
\* telemetry_thread sleeps reporting_interval, motion_thread motion_duration
\* after its first half and motion_interval after its second. When the sleep
\* raises, line 387 or 445 catches the exception outside the loop and the
\* thread function returns; otherwise the loop goes on, motion_thread with its
\* other half
ProducerSleep(p) ==
    /\ ppc[p] = "ret" /\ p # "main"
    /\ \E clock \in Clocks, nanos \in ClockNanos :
          LET seconds == IF p = "telemetry" THEN TelLoad("reporting")
                         ELSE IF motion.half = "start" THEN motion.motion_duration
                         ELSE motion.motion_interval
              raises == SleepRaises(seconds, clock, nanos)
          IN /\ ppc' = [ppc EXCEPT ![p] = IF raises THEN "ended" ELSE "top"]
             /\ motion' = IF p = "motion" /\ ~raises
                           THEN [motion EXCEPT !.half = IF @ = "start" THEN "stop" ELSE "start"]
                           ELSE motion
    /\ tel' = IF p = "telemetry" THEN [tel EXCEPT !.sleep = TelLoad("reporting")] ELSE tel
    /\ UNCHANGED <<gateVars, corrButPpc, rline, calc, rraw, aliased, ser_open, stopping,
                   failsLeft, xpc, feed, location_type, urcHist, dispVars>>

\* line 347-386, 393-413 and 419-444: one transaction of telemetry_thread or of
\* motion_thread (whose two halves have the same statements): next_transaction_id,
\* read_rssi, the records of telemetry_thread, the location, send, wait_for_ack,
\* sleep
Producer(p) ==
    \/ NextIdLoad(p)
    \/ NextIdStore(p)
    \/ NextIdReturn(p, "l351")
    \/ CycleCall(p)
    \/ GateCall(p)
    \/ CycleReturn(p)
    \/ TelemetryCycle(p)
    \/ LocationTest(p)
    \/ WaitForAck(p)
    \/ ProducerSleep(p)

\* the steps of Producer that are taken when no acknowledgment arrives
Cycle(p) ==
    \/ NextIdLoad(p)
    \/ NextIdStore(p)
    \/ NextIdReturn(p, "l351")
    \/ CycleCall(p)
    \/ GateCall(p)
    \/ CycleReturn(p)
    \/ TelemetryCycle(p)
    \/ LocationTest(p)
    \/ WaitAcquire(p)
    \/ WaitRegister(p)
    \/ WaitTimeout(p)
    \/ ProducerSleep(p)

----------------------------------------------------------------------------
(* at.py: AtTerminal.read after a failed read, and the shutdown *)

readerRest == <<responseEvent, responseData, responseSuccess, rresp, rtmp, linesLeft>>

gateCalls == <<urcQueue, spc, scmd, atr, written, sendsLeft, hist>>

\* the reader thread has ended: by an exception nothing catches, or by exit(-1),
\* whose SystemExit ends the thread
Ended == {"dead", "exit"}

\* line 73 and 104: readline raises SerialException: the device fails, or the
\* port is not open
ReadFail ==
    /\ rpc = "l73"
    /\ ~ser_open \/ failsLeft > 0
    /\ failsLeft' = IF ser_open THEN failsLeft - 1 ELSE failsLeft
    /\ rpc' = "l106"
    /\ UNCHANGED <<readerRest, gateCalls, corrVars, rline, auxVars, ser_open, stopping, xpc, feed, location_type, motion,
                   urcHist, dispVars>>

\* line 73, 88 and 110-112: the readline on a port another thread has closed
\* raises some other exception, or line.decode('utf-8') raises UnicodeDecodeError
\* on a line read from the open port; exit(-1) ends the thread
ReadOther ==
    /\ rpc = "l73"
    /\ \/ /\ ~ser_open
          /\ UNCHANGED <<rraw, linesLeft>>
       \/ /\ ser_open /\ linesLeft > 0
          /\ \E line \in feed \ {LineEmpty, LineOK, LineERROR} :
                Undecodable(line) /\ rraw' = line
          /\ linesLeft' = linesLeft - 1
    /\ rpc' = "exit"
    /\ UNCHANGED <<responseEvent, responseData, responseSuccess, rresp, rtmp, gateCalls, corrVars,
                   rline, tel, calc, aliased, portVars, urcHist, dispVars>>

\* line 73: the readline on the port opened without a timeout (line 46) stays
\* blocked although another thread has closed the port
ReadHang ==
    /\ rpc = "l73" /\ ~ser_open
    /\ rpc' = "hung"
    /\ UNCHANGED <<readerRest, gateCalls, corrVars, rline, auxVars, portVars, urcHist, dispVars>>

\* line 106: self.ser.close()
ReadClose ==
    /\ rpc = "l106"
    /\ ser_open' = FALSE
    /\ rpc' = "l108"
    /\ UNCHANGED <<readerRest, gateCalls, corrVars, rline, auxVars, stopping, failsLeft, xpc, feed, location_type, motion,
                   urcHist, dispVars>>

\* line 107-109: self.ser.open() succeeds, and the loop of line 107 comes back
\* to line 108
ReopenOk ==
    /\ rpc = "l108" /\ ~ser_open
    /\ ser_open' = TRUE
    /\ UNCHANGED <<readerRest, rpc, gateCalls, corrVars, rline, auxVars, stopping, failsLeft, xpc, feed, location_type, motion,
                   urcHist, dispVars>>

\* line 108: self.ser.open() raises SerialException, for a port that is already
\* open or a device that is still missing; raised inside the handler of line
\* 104, it is caught by nothing
ReopenRaise ==
    /\ rpc = "l108"
    /\ rpc' = "dead"
    /\ UNCHANGED <<readerRest, gateCalls, corrVars, rline, auxVars, portVars, urcHist, dispVars>>

ReadRecover ==
    \/ ReadFail
    \/ ReadOther
    \/ ReadHang
    \/ ReadClose
    \/ ReopenOk
    \/ ReopenRaise

\* line 154, client.py line 475: stopping = True
ShutdownStop ==
    /\ xpc = "run"
    /\ stopping' = TRUE
    /\ xpc' = "l155"
    /\ UNCHANGED <<gateVars, corrVars, rline, auxVars, ser_open, failsLeft, feed, location_type, motion, urcHist, dispVars>>

\* line 155, client.py line 476: ser.close()
ShutdownClose ==
    /\ xpc = "l155"
    /\ ser_open' = FALSE
    /\ xpc' = "l157"
    /\ UNCHANGED <<gateVars, corrVars, rline, auxVars, stopping, failsLeft, feed, location_type, motion, urcHist, dispVars>>

\* line 156-157: reader.join() returns when the reader thread has ended
ShutdownJoin ==
    /\ xpc = "l157" /\ rpc \in Ended
    /\ xpc' = "joined"
    /\ UNCHANGED <<gateVars, corrVars, rline, auxVars, ser_open, stopping, failsLeft, feed, location_type, motion, urcHist,
                   dispVars>>

Shutdown ==
    \/ ShutdownStop
    \/ ShutdownClose
    \/ ShutdownJoin

----------------------------------------------------------------------------
(* Specifications *)

NoCycles == [p \in Waiters |-> 0]

\* the startup sequence of client.py: the main thread and the Line Reader
StartupInit ==
    GateInit(StartupLines, StartupSends) /\ CorrInit(NoCycles) /\ ExtInit(SerialLines, 0)

StartupNext ==
    \/ Read
    \/ SendCommand("main")

SpecStartup == StartupInit /\ [][StartupNext]_vars

\* the same, with both threads scheduled: the Line Reader and the calling
\* thread each take their next step when they have one
SpecStartupFair ==
    /\ StartupInit /\ [][StartupNext]_vars
    /\ WF_vars(Read)
    /\ WF_vars(SendCommand("main"))

\* after startup: the producers and the dispatcher call send_command concurrently
GateConcInit ==
    GateInit(GateLines, GateSends) /\ CorrInit(NoCycles) /\ ExtInit(SerialLines, 0)

GateNext ==
    \/ Read
    \/ \E c \in Producers : SendCommand(c)

SpecGate == GateConcInit /\ [][GateNext]_vars

\* the race for the transaction id: the telemetry and the motion producer start
\* their first transactions while the modem stays silent
IdsInit ==
    /\ GateInit(0, 0)
    /\ CorrInit([p \in Waiters |-> IF p = "main" THEN 0 ELSE 1])
    /\ ExtInit({}, 0)

IdsNext ==
    \E p \in Waiters \ {"main"} :
        \/ NextIdLoad(p)
        \/ NextIdStore(p)
        \/ NextIdReturn(p, "l351")
        \/ CycleCall(p)
        \/ GateCall(p)
        \/ CycleReturn(p)

SpecIds == IdsInit /\ [][IdsNext]_vars

\* what every state between two commands has in common: the Line Reader is at
\* the top of its loop (line 73), no caller is inside send_command, the
\* configuration is the one of the file, and the answer of the last command has
\* been signalled (line 123 sets responseEvent, line 122 responseSuccess)
Settled ==
    /\ responseEvent = TRUE
    /\ responseSuccess = TRUE
    /\ rpc = "l73"
    /\ rtmp = PyNone
    /\ rraw = <<>>
    /\ spc = [c \in Callers |-> "idle"]
    /\ scmd = [c \in Callers |-> <<>>]
    /\ sendsLeft = 0
    /\ hist = [c \in Callers |-> Fresh]
    /\ ddata = <<>>
    /\ dev = NoEv
    /\ dcfg = NoCfg
    /\ cfgOld = NoOld
    /\ sent = <<>>
    /\ aliased = {}
    /\ calc = NoCalc
    /\ location_type = NoLocationType
    /\ motion = MotionArgs(60, 300)
    /\ ser_open = TRUE
    /\ stopping = FALSE
    /\ failsLeft = 0
    /\ xpc = "run"
    /\ server_address = ConfServer
    /\ reporting_interval = DefaultInterval
    /\ reading_interval = DefaultReadings
    /\ ack_lock = "free"
    /\ pev = [p \in Waiters |-> NoEv]

\* line 74-79: the line the Line Reader has read last
LastRead(line) ==
    /\ rline = line
    /\ rresp = RespOf(line)

\* line 324-343: what the startup of the main thread leaves behind when neither
\* of its two packets is acknowledged within the timeout: the ids 1 and 2 are
\* taken, and the events of both waits are still registered and not set (line
\* 136-137 return without removing them). The main thread then starts the
\* producers (line 450-462) and takes no further transaction.
StartupUnanswered ==
    /\ ack_events = [id \in {1, 2} |-> id]
    /\ acked = {}
    /\ ack_event = FALSE
    /\ evFlag = <<FALSE, FALSE>>
    /\ begun = {}
    /\ completed = {}

\* line 331 and 342: the commands the startup has written
StartupSent == <<CmdSend, CmdSend>>

\* line 324-343, 348-382 and 395-412: after the startup both producers have
\* taken their ids, read the signal strength and the serving cell, and sent
\* their packets; the dispatcher has taken the two MEAS events out of the queue,
\* and the SOCKETEV events that announce the answers of the server are queued.
\* The telemetry producer holds id 3 and the motion producer the id `second`:
\* 4 when it took its id after the telemetry producer, 3 again when it loaded
\* the counter before the telemetry producer had stored it.
BothSent(second) ==
    /\ Settled
    /\ StartupUnanswered
    /\ LastRead(LineSockEv)
    /\ responseData = PyStr(RespOf(LineSockEv))
    /\ urcQueue = <<UrcOf(LineSockEv), UrcOf(LineSockEv)>>
    /\ atr = [c \in Callers |-> IF c \in {"telemetry", "motion"}
                                 THEN AtResponse(CmdSend, TRUE, PyNone) ELSE NoResponse]
    /\ written = StartupSent \o <<CmdCsq, CmdMeas, CmdSend, CmdCsq, CmdMeas, CmdSend>>
    /\ tel = TelOf(DefaultInterval, DefaultReadings, 0)
    /\ enq = <<UrcOf(LineMeas), UrcOf(LineMeas), UrcOf(LineSockEv), UrcOf(LineSockEv)>>
    /\ deq = <<UrcOf(LineMeas), UrcOf(LineMeas)>>
    /\ durc = UrcOf(LineMeas)
    /\ dpc = "l234"
    /\ dcmd = <<>>
    /\ dtxn = NoTxn
    /\ ppc = [p \in Waiters |-> IF p = "main" THEN "top" ELSE "l120"]
    /\ pack = [p \in Waiters |-> FALSE]
    /\ cyclesLeft = NoCycles
    /\ issued = 4
    /\ transaction_id = second
    /\ ptmp = [p \in Waiters |-> IF p = "main" THEN 0
                                  ELSE IF p = "motion" THEN second - 1 ELSE 2]
    /\ ptxn = [p \in Waiters |-> IF p = "main" THEN NoTxn
                                  ELSE IF p = "motion" THEN second ELSE 3]

\* what ser.readline() may return while the acknowledgments are fetched
AckLines == {LineOK, LineRecvAck, LineRecvAck2}

\* the correlator: the two producers wait for the acknowledgments of their
\* transactions 3 and 4 while the Line Reader and the dispatcher receive them
CorrStart ==
    /\ BothSent(4)
    /\ linesLeft = CorrLines
    /\ feed = AckLines

\* the same when both producers hold id 3
SharedStart ==
    /\ BothSent(3)
    /\ linesLeft = SharedLines
    /\ feed = {LineOK, LineRecvAck}

\* line 234-267: the dispatcher from wait_for_urc to the resolution of an
\* acknowledgment
AckPath ==
    \/ WaitUrcGet
    \/ WaitUrcEmpty
    \/ DispTest
    \/ DispReceiveCall
    \/ GateCall("dispatcher")
    \/ DispReceiveReturn
    \/ DispDecode
    \/ ResolveAcquire
    \/ Resolve
    \/ ResolveSet
    \/ ResolveAny

\* at.py line 72-103: the Line Reader while every line it reads has content
ReadAnswers ==
    \/ ReadTerminator
    \/ ReadSignal
    \/ ReadLine
    \/ ReadTestData
    \/ ReadTestStr
    \/ ReadWrapLoad
    \/ ReadWrap
    \/ ReadAppend
    \/ ReadStore

CorrNext ==
    \/ ReadAnswers
    \/ AckPath
    \/ \E p \in Waiters \ {"main"} : WaitForAck(p)

SpecCorr == CorrStart /\ [][CorrNext]_vars

SpecShared == SharedStart /\ [][CorrNext]_vars

\* one thread calling next_transaction_id again and again
SeqInit ==
    /\ GateInit(0, 0)
    /\ CorrInit([p \in Waiters |-> IF p = "main" THEN SeqCalls ELSE 0])
    /\ ExtInit({}, 0)

SeqNext ==
    \/ NextIdLoad("main")
    \/ NextIdStore("main")
    \/ NextIdReturn("main", "ret")

SpecSeq == SeqInit /\ [][SeqNext]_vars


\* line 348-382: the telemetry producer has taken an id, read the signal
\* strength and the serving cell, and sent its packet; the dispatcher has taken
\* the MEAS event out of the queue and found it is no SOCKETEV event
TelemetryAtWait ==
    /\ Settled
    /\ LastRead(LineMeas)
    /\ responseData = PyNone
    /\ urcQueue = <<>>
    /\ atr = [c \in Callers |-> IF c = "telemetry"
                                 THEN AtResponse(CmdSend, TRUE, PyNone) ELSE NoResponse]
    /\ enq = <<UrcOf(LineMeas)>>
    /\ deq = <<UrcOf(LineMeas)>>
    /\ durc = UrcOf(LineMeas)
    /\ dpc = "l234"
    /\ ppc = [p \in Waiters |-> IF p = "telemetry" THEN "l120" ELSE "top"]
    /\ pack = [p \in Waiters |-> FALSE]
    /\ cyclesLeft = NoCycles

\* line 324-343 and 348-382: after the startup the telemetry producer has taken
\* id 3 in its first cycle and sent its packet
TelemetrySent ==
    /\ TelemetryAtWait
    /\ StartupUnanswered
    /\ written = StartupSent \o <<CmdCsq, CmdMeas, CmdSend>>
    /\ tel = TelOf(DefaultInterval, DefaultReadings, 0)
    /\ dcmd = <<>>
    /\ dtxn = NoTxn
    /\ issued = 3
    /\ transaction_id = 3
    /\ ptmp = [p \in Waiters |-> IF p = "telemetry" THEN 2 ELSE 0]
    /\ ptxn = [p \in Waiters |-> IF p = "telemetry" THEN 3 ELSE NoTxn]

\* line 324-343, line 348-386 65534 times over, and line 348-382 once more: the
\* server has acknowledged the two packets of the startup (ids 1 and 2) and the
\* 65534 packets the telemetry producer has sent since (ids 3..65535 and then
\* 0, line 90), so that every id is in the set of line 262; the dispatcher keeps
\* the packet that acknowledged id 0 (line 245-248) and has set the shared
\* event (line 264); the producer has then taken id 1 again and sent its packet.
\* The histories (written, enq, deq, begun, completed, issued) are kept from the
\* moment id 1 was issued again.
Wrapped ==
    /\ TelemetryAtWait
    /\ written = <<CmdCsq, CmdMeas, CmdSend>>
    /\ tel = TelOf(DefaultInterval, DefaultReadings, DefaultInterval)
    /\ dcmd = <<OrdA, OrdNul>>
    /\ dtxn = 0
    /\ ack_events = <<>>
    /\ acked = 0..(Modulus - 1)
    /\ ack_event = TRUE
    /\ evFlag = <<>>
    /\ begun = {}
    /\ completed = {}
    /\ issued = 1
    /\ transaction_id = 1
    /\ ptmp = [p \in Waiters |-> 0]
    /\ ptxn = [p \in Waiters |-> IF p = "telemetry" THEN 1 ELSE NoTxn]

\* what ser.readline() may return while the server stays silent
WrapFeed == {LineEmpty, LineOK}

WrapInit ==
    /\ Wrapped
    /\ linesLeft = WrapLines
    /\ feed = WrapFeed

\* the wait for the acknowledgment of the re-issued id, and the sleep after it
WrapNext ==
    \/ ReadEmpty
    \/ ReadTerminator
    \/ ReadSignal
    \/ WaitUrcEmpty
    \/ DispTest
    \/ WaitAcquire("telemetry")
    \/ WaitRegister("telemetry")
    \/ ProducerSleep("telemetry")

SpecWrap == WrapInit /\ [][WrapNext]_vars

\* the inbound path: the Line Reader, the dispatcher, and the telemetry producer
\* waiting for the acknowledgment of its first packet
DispatchInit ==
    /\ TelemetrySent
    /\ linesLeft = DispatchLines
    /\ feed = SocketLines

DispatchNext ==
    \/ Read
    \/ AckHandler
    \/ WaitForAck("telemetry")

SpecDispatch == DispatchInit /\ [][DispatchNext]_vars

\* the Line Reader with failing reads, and the shutdown; every thread that can
\* take a step eventually takes one
PortInit ==
    /\ GateInit(PortLines, PortSends)
    /\ CorrInit(NoCycles)
    /\ ExtInit(SerialLines \cup {LineNoUtf8}, PortFails)

\* the Line Reader on a port that fails and is closed, the shutdown, and a
\* thread that calls send_command meanwhile
PortNext ==
    \/ Read
    \/ ReadRecover
    \/ Shutdown
    \/ SendCommand("telemetry")

SpecPort ==
    /\ PortInit /\ [][PortNext]_vars
    /\ WF_vars(Read \/ ReadRecover)
    /\ WF_vars(Shutdown)

\* one cycle of the telemetry producer while the Line Reader and the dispatcher
\* receive and handle a configuration write
ConfigInit ==
    /\ GateInit(ConfigLines, 0)
    /\ CorrInit([p \in Waiters |-> IF p = "telemetry" THEN 1 ELSE 0])
    /\ ExtStart({LineOK, LineSockEv, LineRecvWrite}, 0, {LocSimulated})

ConfigNext ==
    \/ ReadTerminator
    \/ ReadSignal
    \/ ReadLine
    \/ ReadTestData
    \/ ReadTestStr
    \/ ReadWrapLoad
    \/ ReadWrap
    \/ ReadAppend
    \/ ReadStore
    \/ WaitUrcGet
    \/ WaitUrcEmpty
    \/ DispTest
    \/ DispReceiveCall
    \/ DispReceiveReturn
    \/ DispDecode
    \/ GateCall("dispatcher")
    \/ ConfigWrite
    \/ Cycle("telemetry")

SpecConfig == ConfigInit /\ [][ConfigNext]_vars

\* the Line Reader and the dispatcher while packets arrive that are
\* unsupported or malformed
\* an answer to AT%SOCKETDATA="RECEIVE" of three fields, the third a packet
LineRecvShort == <<"%", "S", "O", "C", "K", "E", "T", "D", "A", "T", "A", ":", "1", ",", "5", ",", "\"", "0", "1", "4", "3", "5", "2", "0", "0", "0", "7", "\"", "\r", "\n">>

\* what ser.readline() may return when the modem-read command goes wrong
ReceiveLines == {LineEmpty, LineOK, LineERROR, LineSockEv, LineRecvShort}

ReceiveInit ==
    /\ GateInit(ReceiveCount, 0)
    /\ CorrInit(NoCycles)
    /\ ExtInit(ReceiveLines, 0)

InboundInit ==
    /\ GateInit(InboundCount, 0)
    /\ CorrInit(NoCycles)
    /\ ExtInit(InboundLines, 0)

InboundNext ==
    \/ Read
    \/ WaitUrcGet
    \/ WaitUrcEmpty
    \/ DispTest
    \/ DispReceiveCall
    \/ DispReceiveReturn
    \/ DispDecode
    \/ GateCall("dispatcher")

SpecInbound == InboundInit /\ [][InboundNext]_vars

SpecReceive == ReceiveInit /\ [][InboundNext]_vars

\* the telemetry producer alone with the Line Reader, for two cycles
CycleInit ==
    /\ GateInit(CycleCount, 0)
    /\ CorrInit([p \in Waiters |-> IF p = "telemetry" THEN 2 ELSE 0])
    /\ ExtStart(CycleLines, 0, {LocSimulated, NoLocationType})

CycleNext ==
    \/ Read
    \/ Cycle("telemetry")

SpecCycle == CycleInit /\ [][CycleNext]_vars

\* line 324-343, 268-272 and 395-412: after the startup the telemetry producer
\* has taken id 3, sent its packet and is about to wait; the motion producer has
\* taken id 4 and read the serving cell and is about to send; the dispatcher has
\* received and decoded a configuration read and is about to reply
DecodedRead ==
    /\ Settled
    /\ StartupUnanswered
    /\ LastRead(LineRecvRead)
    /\ responseData = PyStr(RespOf(LineRecvRead))
    /\ urcQueue = <<UrcOf(LineRecvRead)>>
    /\ atr = [c \in Callers |-> IF c = "telemetry" THEN AtResponse(CmdSend, TRUE, PyNone)
                                 ELSE IF c = "motion"
                                 THEN AtResponse(CmdMeas, TRUE, PyStr(RespOf(LineMeas)))
                                 ELSE NoResponse]
    /\ written = StartupSent \o <<CmdCsq, CmdMeas, CmdSend, CmdCsq, CmdMeas, CmdReceive>>
    /\ tel = TelOf(DefaultInterval, DefaultReadings, 0)
    /\ enq = <<UrcOf(LineMeas), UrcOf(LineMeas), UrcOf(LineSockEv), UrcOf(LineRecvRead)>>
    /\ deq = <<UrcOf(LineMeas), UrcOf(LineMeas), UrcOf(LineSockEv)>>
    /\ durc = UrcOf(LineSockEv)
    /\ dpc = "l272"
    /\ dcmd = <<OrdC, OrdR>>
    /\ dtxn = 7
    /\ ppc = [p \in Waiters |-> IF p = "telemetry" THEN "l120"
                                 ELSE IF p = "motion" THEN "l382" ELSE "top"]
    /\ pack = [p \in Waiters |-> FALSE]
    /\ cyclesLeft = NoCycles
    /\ issued = 4
    /\ transaction_id = 4
    /\ ptmp = [p \in Waiters |-> IF p = "main" THEN 0
                                  ELSE IF p = "motion" THEN 3 ELSE 2]
    /\ ptxn = [p \in Waiters |-> IF p = "main" THEN NoTxn
                                  ELSE IF p = "motion" THEN 4 ELSE 3]

\* a producer that waits and a producer that sends, while the dispatcher replies
\* to the configuration read it has decoded
SendWaitInit ==
    /\ DecodedRead
    /\ linesLeft = SendWaitCount
    /\ feed = {LineEmpty, LineOK}

SendWaitNext ==
    \/ ReadEmpty
    \/ ReadTerminator
    \/ ReadSignal
    \/ \E p \in {"telemetry", "motion"} : WaitAcquire(p) \/ WaitRegister(p) \/ WaitTimeout(p)
    \/ CycleCall("motion")
    \/ GateCall("motion")
    \/ CycleReturn("motion")
    \/ ConfigReply
    \/ GateCall("dispatcher")
    \/ ConfigReplyReturn

SpecSendWait == SendWaitInit /\ [][SendWaitNext]_vars

----------------------------------------------------------------------------
(* Claims about the Command/Response Gate *)

Calling == {c \in Callers : InFlight(c)}

\* C1: at most one send_command call is in flight at any time, across all
\* threads: no second call is between its reset and its return while an earlier
\* call still is.
C1_OneCommandInFlight == Cardinality(Calling) <= 1

\* a finished gated call whose exchange was alone on the gate, with no line of an
\* earlier exchange still being processed when its reset finished
Exchange(c) == spc[c] = "done" /\ Gated(scmd[c]) /\ hist[c].alone

Kinds(h) == [i \in 1..Len(h) |-> h[i].kind]

\* the value a response-data line carries: the line without its label and CRLF
ValueOf(line) ==
    IF line = LineData THEN <<"7">>
    ELSE IF line = LineLabel THEN <<"8">>
    ELSE <<>>

RECURSIVE DataValues(_)
DataValues(h) ==
    IF h = <<>> THEN <<>>
    ELSE IF Head(h).kind = "data" THEN <<ValueOf(Head(h).line)>> \o DataValues(Tail(h))
    ELSE DataValues(Tail(h))

\* a single value, promoted to an ordered sequence on a second accumulation
Accumulated(vs) ==
    IF vs = <<>> THEN PyNone
    ELSE IF Len(vs) = 1 THEN PyStr(vs[1])
    ELSE PyList(vs)

NoTerminator(h) == \A i \in 1..Len(h) : h[i].kind \notin {"ok", "error"}

\* C2: a send_command call for which no OK/ERROR line is read returns
\* success=false and the response data accumulated since its reset: none when
\* no response-data line arrived.
C2_TimeoutResult ==
    \A c \in Callers :
        Exchange(c) /\ NoTerminator(hist[c].lines) =>
            /\ atr[c].success = FALSE
            /\ atr[c].data = Accumulated(DataValues(hist[c].lines))

\* C3: when a command is sent and the Line Reader then reads exactly one
\* response-data line followed by OK, send_command returns success=true with
\* data equal to that line's value as a string. The lines are those
\* ser.readline() returns between the write of the command and the return of
\* the call, and the OK arrives within the wait.
C3_OneLineThenOK ==
    \A c \in Callers :
        /\ spc[c] = "done" /\ Gated(scmd[c]) /\ ~hist[c].timeout
        /\ Kinds(hist[c].after) = <<"data", "ok">>
        => /\ atr[c].success = TRUE
           /\ atr[c].data = PyStr(ValueOf(hist[c].after[1].line))

\* C13: a line that matches the event pattern is queued as an event and is not
\* accumulated into the response data; the lines accumulated are neither
\* empty, nor OK or ERROR, nor event lines
C13_ExclusiveClassification ==
    Accumulating => /\ ~UrcMatches(rline)
                    /\ rline \notin {LineEmpty, LineOK, LineERROR}

----------------------------------------------------------------------------
(* Claims about the transaction correlator *)

\* C4: sequential calls to next_transaction_id return 1, 2, ..., 65535, 0, 1,
\* ...: the k-th call returns k modulo 65536, a value in 0..65535, so no value
\* repeats before 65536 calls have been made.
C4_SequentialIds ==
    ppc["main"] = "ret" =>
        /\ ptxn["main"] = issued % 65536
        /\ ptxn["main"] \in 0..65535

\* the counter has wrapped: the 65536th call returned 0
C4_Witness == ppc["main"] = "ret" /\ issued = 65536 /\ ptxn["main"] = 0

\* no producer is inside next_transaction_id
NoneInNextId == \A p \in Waiters : ppc[p] \notin {"l89", "l90"}

\* C5: next_transaction_id is safe under concurrent callers: the calls of the
\* telemetry and the motion producer return distinct values, and the counter
\* advances by one for every call.
C5_DistinctIds ==
    /\ \A p, q \in Waiters :
          p # q /\ ptxn[p] # NoTxn /\ ptxn[q] # NoTxn => ptxn[p] # ptxn[q]
    /\ NoneInNextId => transaction_id = issued

\* C6: no lost wakeup: once the resolution of its id is complete, a wait that
\* is at its check or blocked neither registers a waiter nor times out: its
\* next step leads to the return of True.
C6_NoLostWakeup ==
    [][\A p \in Waiters :
          (ptxn[p] \in completed /\ ppc[p] \in {"l121", "l129"} /\ ppc'[p] # ppc[p]) =>
              /\ ppc'[p] \in {"ret", "l131"}
              /\ ppc'[p] = "ret" => pack'[p] = TRUE]_vars

\* a wait that had registered its waiter was woken by the resolution of its id
C6_Witness ==
    \E p \in Waiters :
        ppc[p] = "ret" /\ pack[p] /\ pev[p] # NoEv /\ ptxn[p] \in completed

\* C7: wait_for_ack(id) returns True only if the dispatcher has resolved id
\* before the call returns; when id is never resolved it returns False.
C7_TrueOnlyIfResolved ==
    \A p \in Waiters :
        ppc[p] = "ret" =>
            /\ pack[p] \in BOOLEAN
            /\ pack[p] => ptxn[p] \in begun
            /\ ptxn[p] \notin begun => pack[p] = FALSE

\* a wait that registered its waiter and timed out: its id was never resolved,
\* while another id was
C7_Witness ==
    \E p \in Waiters :
        /\ ppc[p] = "ret" /\ ~pack[p] /\ pev[p] # NoEv
        /\ ptxn[p] \notin begun /\ begun # {}

\* C8: once an id has been resolved it stays in the already-acknowledged
\* memory, and a later wait_for_ack for it returns True at its check, without
\* registering a waiter and without blocking.
C8_FastPath ==
    [][/\ begun' \subseteq acked'
       /\ \A p \in Waiters :
             (ppc[p] = "l121" /\ ppc'[p] # "l121" /\ ptxn[p] \in begun) =>
                 /\ ppc'[p] = "ret" /\ pack'[p] = TRUE
                 /\ ack_events' = ack_events /\ evFlag' = evFlag /\ pev'[p] = NoEv]_vars

\* a wait returned True without ever having had a waiter
C8_Witness ==
    \E p \in Waiters :
        ppc[p] = "ret" /\ pack[p] /\ pev[p] = NoEv /\ ptxn[p] \in completed

\* C9: acknowledgments resolve out of order: the resolution of another id
\* does not wake a wait, which stays blocked until its own id is resolved.
C9_OutOfOrder ==
    \A p \in Waiters :
        ppc[p] = "l129" /\ ptxn[p] \notin begun => ~evFlag[pev[p]]

\* B, whose id was issued later, has been woken while A is still blocked
C9_Witness ==
    \E a, b \in Waiters :
        /\ ptxn[a] # NoTxn /\ ptxn[a] < ptxn[b]
        /\ ppc[b] = "ret" /\ pack[b] /\ pev[b] # NoEv
        /\ ppc[a] = "l129" /\ ~evFlag[pev[a]] /\ ptxn[a] \notin begun

\* C10: resolving an id that has been resolved before changes neither the
\* pending-waiter mapping nor the already-acknowledged set, finds no waiter to
\* wake, and raises no error.
C10_ResolveIdempotent ==
    [][(dpc = "l262" /\ dpc' = "l264" /\ dtxn \in begun) =>
          /\ ack_events' = ack_events
          /\ acked' = acked
          /\ dev' = NoEv]_vars

\* the dispatcher has resolved, for the second time, an id resolved before
C10_Witness == dpc = "l264" /\ dtxn \in completed /\ dev = NoEv

\* the waits that hold or are about to use a waiter object
Outstanding(p) == ppc[p] \in {"l129", "l131", "l132"}

\* C11: at most one pending waiter per transaction id: concurrent waits on the
\* same id hold the same Event (the second joins it, it does not replace it),
\* and once that id has been resolved every wait blocked on it finds its Event
\* set, so it returns True.
C11_OneWaiterPerId ==
    /\ \A p, q \in Waiters :
          Outstanding(p) /\ Outstanding(q) /\ ptxn[p] = ptxn[q] => pev[p] = pev[q]
    /\ \A p \in Waiters :
          ppc[p] = "l129" /\ ptxn[p] \in completed => evFlag[pev[p]]

\* two waits on the same id shared one Event and one resolution made both
\* return True
C11_Witness ==
    \E p, q \in Waiters :
        /\ p # q /\ ptxn[p] = ptxn[q] /\ pev[p] = pev[q] /\ pev[p] # NoEv
        /\ ppc[p] = "ret" /\ pack[p]
        /\ ppc[q] = "ret" /\ pack[q]

\* no wait on the id of p is outstanding
NoneOutstanding(id) ==
    \A q \in Waiters : ptxn[q] = id => ppc[q] \notin {"l120", "l121", "l129", "l131", "l132"}

\* C12: a pending-waiter entry exists only while a wait on its id is
\* outstanding: after every wait_for_ack call on an id has returned, whether
\* resolved or timed out, the mapping holds no entry for that id.
C12_EntryRemoved ==
    \A p \in Waiters :
        ppc[p] = "ret" /\ NoneOutstanding(ptxn[p]) => ptxn[p] \notin DOMAIN ack_events

----------------------------------------------------------------------------
(* Claims about the event queue and the dispatcher *)

\* C14: the event queue is a lossless first-in first-out hand-off: the events
\* the Line Reader has queued are, in the order of their queueing, the events
\* wait_for_urc has returned (each once) followed by those still in the queue
C14_LosslessFifo ==
    /\ enq = deq \o urcQueue
    /\ dpc = "l235" /\ durc # NoUrc => deq # <<>> /\ durc = deq[Len(deq)]

\* two different events have been returned by two calls of wait_for_urc
C14_Witness ==
    /\ Len(deq) >= 2
    /\ deq[1] # deq[2]
    /\ enq[1] = deq[1] /\ enq[2] = deq[2]

\* C15: wait_for_urc on a queue that stays empty for the timeout returns None,
\* does not raise, and leaves the queue and the response state of the gate as
\* they were
C15_EmptyWait ==
    [][dpc = "l234" /\ dpc' # dpc /\ urcQueue = <<>>
          => /\ dpc' = "l235"
             /\ durc' = NoUrc
             /\ urcQueue' = urcQueue
             /\ responseEvent' = responseEvent
             /\ responseData' = responseData
             /\ responseSuccess' = responseSuccess]_vars

\* wait_for_urc has timed out on the empty queue after an earlier call had
\* returned an event
C15_Witness ==
    /\ dpc = "l235" /\ durc = NoUrc
    /\ deq # <<>> /\ urcQueue = <<>>

\* send_command has returned success with the payload of this one line as data
Answered(rsp, line) == rsp.success /\ rsp.data = PyStr(RespOf(line))

\* C18: when the dispatcher has popped a SOCKETEV event and the read command
\* returns the acknowledgment packet of transaction 3, the dispatcher resolves
\* 3: the id is recorded as acknowledged, the waiters blocked on it are woken,
\* and a woken wait_for_ack returns True
C18_AckResolves ==
    [][/\ dpc = "l241" /\ dpc' # dpc /\ Answered(atr["dispatcher"], LineRecvAck)
          => dpc' = "l261" /\ dtxn' = 3
       /\ dpc = "l261" /\ dpc' # dpc => dpc' = "l262" /\ dtxn' = dtxn
       /\ dpc = "l262" /\ dpc' # dpc => dpc' = "l264" /\ dtxn \in acked' /\ dtxn' = dtxn
       /\ dpc = "l264" /\ dpc' # dpc
          => \A p \in Waiters : ppc[p] = "l129" /\ ptxn[p] = dtxn => evFlag'[pev[p]]
       /\ \A p \in Waiters :
            /\ ppc[p] = "l129" /\ evFlag[pev[p]] /\ ppc'[p] # ppc[p] => ppc'[p] = "l131"
            /\ ppc[p] = "l131" /\ ppc'[p] # ppc[p] => ppc'[p] = "l132"
            /\ ppc[p] = "l132" /\ ppc'[p] # ppc[p] => ppc'[p] = "ret" /\ pack'[p] = TRUE]_vars

\* the producer blocked in wait_for_ack(3) has returned True after the
\* dispatcher popped the SOCKETEV event and read the acknowledgment packet
C18_Witness ==
    /\ ppc["telemetry"] = "ret" /\ pack["telemetry"] = TRUE
    /\ ptxn["telemetry"] = 3 /\ pev["telemetry"] # NoEv
    /\ deq = <<UrcOf(LineMeas), UrcOf(LineSockEv)>>
    /\ written = StartupSent \o <<CmdCsq, CmdMeas, CmdSend, CmdReceive>>
    /\ dtxn = 3 /\ 3 \in completed

\* a step of the dispatcher thread
DispatcherStep == dpc' # dpc \/ spc'["dispatcher"] # spc["dispatcher"]

\* the configuration as the key/value payload of a reply
CurrentKv ==
    [server |-> server_address,
     interval |-> StrOf(reporting_interval),
     readings |-> StrOf(reading_interval)]

\* C19: on the configuration-read packet of transaction 7 the dispatcher sends
\* one reply with the current server, interval and readings and transaction
\* id 7, goes back to waiting for events without waiting for an
\* acknowledgment, and changes neither the transaction counter, nor the
\* configuration, nor the state of the correlator
C19_ConfigRead ==
    [][/\ dpc = "l241" /\ dpc' # dpc /\ Answered(atr["dispatcher"], LineRecvRead)
          => dpc' = "l272" /\ dtxn' = 7
       /\ dpc = "l272" /\ dpc' # dpc
          => /\ dpc' = "l95"
             /\ sent' = Append(sent, [event |-> "C", txn_id |-> dtxn, kv |-> CurrentKv])
       /\ dpc = "l95" /\ IsConfigRead(dcmd) /\ DispatcherStep
          => /\ sent' = sent
             /\ dpc' \in {"l95", "l234"}
       /\ dpc \in {"l272", "l95"} /\ IsConfigRead(dcmd) /\ DispatcherStep
          => /\ transaction_id' = transaction_id
             /\ confVars' = confVars
             /\ ack_events' = ack_events /\ acked' = acked
             /\ evFlag' = evFlag /\ ack_event' = ack_event
             /\ dtxn' = dtxn]_vars

\* the reply to the configuration read of transaction 7 has been sent and the
\* dispatcher is back at wait_for_urc, while the producer has taken id 3
C19_Witness ==
    /\ dpc = "l234" /\ IsConfigRead(dcmd) /\ dtxn = 7
    /\ Len(sent) = 1 /\ sent[1].txn_id = 7
    /\ sent[1].kv.interval = <<"1", "2", "0">>
    /\ written = StartupSent \o <<CmdCsq, CmdMeas, CmdSend, CmdReceive, CmdSend>>
    /\ transaction_id = 3

\* a key of the decoded configuration carries a value
Provided(value) == value # PyNone /\ Truthy(value)

\* every value the decoded configuration carries is the value of its field
DecodedInPlace ==
    /\ Provided(dcfg.server) => server_address = dcfg.server.items[1]
    /\ Provided(dcfg.interval) => StrOf(reporting_interval) = dcfg.interval.items[1]
    /\ Provided(dcfg.readings) => StrOf(reading_interval) = dcfg.readings.items[1]

\* C20: on a configuration-write packet the configuration is replaced by the
\* decoded values and one reply with the packet's transaction id carries the
\* resulting configuration; when the decoding fails every field keeps its
\* previous value and the reply is still sent
C20_ConfigWrite ==
    /\ dpc = "l302" /\ cfgOld # NoOld
       => \/ DecodedInPlace
          \/ <<server_address, reporting_interval, reading_interval>> = cfgOld
    /\ dpc = "l95" /\ cfgOld # NoOld
       => /\ sent # <<>>
          /\ sent[Len(sent)] = [event |-> "C", txn_id |-> dtxn, kv |-> CurrentKv]

\* C16: after a failed read the Line Reader closes and reopens the port,
\* trying again when the opening fails, and once the port has been reopened it
\* goes back to reading lines
C16_ReopenAndResume ==
    [][/\ rpc = "l106" /\ rpc' # rpc => rpc' = "l108" /\ ~ser_open'
       /\ rpc = "l108" /\ ser_open /\ rpc' # rpc => rpc' = "l73"
       /\ rpc = "l108" /\ ~ser_open /\ rpc' # rpc => rpc' \in {"l73", "l108"}]_vars

\* C17: once the shutdown has set the stop flag and closed the port, the reader
\* thread ends and the join returns
C17_ReaderExits == (stopping /\ xpc = "l157") ~> (rpc \in Ended /\ xpc = "joined")

\* the configuration the write in hand found, and the one it leaves
ConfigBefore == CycleOf(cfgOld[2], cfgOld[3])
ConfigAfter == CycleOf(reporting_interval, reading_interval)

\* what the telemetry cycle has computed
CycleDone == [rc |-> tel.rc, back |-> tel.back, interval |-> tel.interval, sleep |-> tel.sleep]

\* C21: a configuration write is atomic for the telemetry producer: a cycle
\* that runs while the dispatcher writes the configuration is computed from
\* the configuration before the write or from the one after it, never from a
\* mix of the two
C21_AtomicConfigWrite ==
    (ppc["telemetry"] = "top" /\ cyclesLeft["telemetry"] = 0 /\ dpc = "l302" /\ cfgOld # NoOld)
        => CycleDone \in {ConfigBefore, ConfigAfter}

\* C22: a packet whose command is neither an acknowledgment, nor a
\* configuration read, nor a configuration write is ignored: the dispatcher
\* sends nothing, resolves nothing, leaves the configuration and the
\* transaction counter alone, and goes on with the next event
C22_UnknownIgnored ==
    [][dpc = "l241" /\ dpc' # dpc /\ Answered(atr["dispatcher"], LineRecvOther)
          => /\ dpc' = "l234"
             /\ sent' = sent /\ written' = written
             /\ acked' = acked /\ ack_events' = ack_events
             /\ evFlag' = evFlag /\ ack_event' = ack_event
             /\ confVars' = confVars
             /\ transaction_id' = transaction_id]_vars

\* the packet of command 'X' has been decoded and the dispatcher is back at
\* wait_for_urc, having sent nothing but the read command
C22_Witness ==
    /\ dpc = "l234" /\ dcmd = <<88, 0>> /\ dtxn = 7
    /\ deq # <<>> /\ written = <<CmdReceive>>
    /\ sent = <<>> /\ acked = {}

\* C23: a packet whose payload cannot be decoded into a header fails alone: the
\* dispatcher goes on with the next event
C23_MalformedSurvived ==
    [][dpc = "l241" /\ dpc' # dpc /\ Answered(atr["dispatcher"], LineRecvBad)
          => dpc' = "l234"]_vars

\* C24: a command of a telemetry cycle that fails or times out, and a
\* wait_for_ack that times out, do not end the producer: its loop goes on
C24_ProducerSurvives ==
    [][/\ /\ ppc["telemetry"] \in {"l351w", "l372w", "l382w"}
          /\ ~atr["telemetry"].success
          /\ ppc'["telemetry"] # ppc["telemetry"]
          => ppc'["telemetry"] \in {"l355", "l372", "l382", "l120"}
       /\ ppc["telemetry"] = "l129" /\ ppc'["telemetry"] # ppc["telemetry"]
          => ppc'["telemetry"] \in {"ret", "l131"}]_vars


(***************************************************************************)
(* The packet codec: encoder_packets.py, encoder.py, decoder.py.  Strings   *)
(* given to the codec are sequences of code points, bytes are sequences of  *)
(* integers 0..255.                                                         *)
(***************************************************************************)
OrdZero == 48
OrdNine == 57
OrdDash == 45
OrdSuperTwo == 178
OrdEuro == 8364
OrdT == 84
OrdLowerA == 97
OrdEAcute == 233

ByteMax == 255
WordMax == 65535
AsciiMax == 127
ImeiBytes == 8
HeaderBytes == 13

\* bounds of the codec's inputs
MaxImeiLen == 20
MaxImeiStart == 2
MaxStrLen == 257
MaxStrStart == 1
MaxBufLen == 5

CodecRest == <<gateVars, corrVars, rline, tel, rraw, aliased, portVars, urcHist, dispVars>>

Zeros(n) == [i \in 1..n |-> 0]

\* the code points beyond ASCII for which str.isdigit() is true, as ranges:
\* the decimal digits of every script (general category Nd) and the
\* characters with a digit value that are no decimal digits (superscripts,
\* subscripts, circled digits and others)
WideDigitRanges ==
    {
     <<178, 179>>, <<185, 185>>, <<1632, 1641>>, <<1776, 1785>>, <<1984, 1993>>,
     <<2406, 2415>>, <<2534, 2543>>, <<2662, 2671>>, <<2790, 2799>>, <<2918, 2927>>,
     <<3046, 3055>>, <<3174, 3183>>, <<3302, 3311>>, <<3430, 3439>>, <<3558, 3567>>,
     <<3664, 3673>>, <<3792, 3801>>, <<3872, 3881>>, <<4160, 4169>>, <<4240, 4249>>,
     <<4969, 4977>>, <<6112, 6121>>, <<6160, 6169>>, <<6470, 6479>>, <<6608, 6618>>,
     <<6784, 6793>>, <<6800, 6809>>, <<6992, 7001>>, <<7088, 7097>>, <<7232, 7241>>,
     <<7248, 7257>>, <<8304, 8304>>, <<8308, 8313>>, <<8320, 8329>>, <<9312, 9320>>,
     <<9332, 9340>>, <<9352, 9360>>, <<9450, 9450>>, <<9461, 9469>>, <<9471, 9471>>,
     <<10102, 10110>>, <<10112, 10120>>, <<10122, 10130>>, <<42528, 42537>>,
     <<43216, 43225>>, <<43264, 43273>>, <<43472, 43481>>, <<43504, 43513>>,
     <<43600, 43609>>, <<44016, 44025>>, <<65296, 65305>>, <<66720, 66729>>,
     <<68160, 68163>>, <<68912, 68921>>, <<69216, 69224>>, <<69714, 69722>>,
     <<69734, 69743>>, <<69872, 69881>>, <<69942, 69951>>, <<70096, 70105>>,
     <<70384, 70393>>, <<70736, 70745>>, <<70864, 70873>>, <<71248, 71257>>,
     <<71360, 71369>>, <<71472, 71481>>, <<71904, 71913>>, <<72016, 72025>>,
     <<72784, 72793>>, <<73040, 73049>>, <<73120, 73129>>, <<92768, 92777>>,
     <<92864, 92873>>, <<93008, 93017>>, <<120782, 120831>>, <<123200, 123209>>,
     <<123632, 123641>>, <<125264, 125273>>, <<127232, 127242>>, <<130032, 130041>>
    }

\* str.isdigit() of one character
IsDigit(ch) ==
    \/ ch \in OrdZero..OrdNine
    \/ \E r \in WideDigitRanges : r[1] <= ch /\ ch <= r[2]

\* int(ch) of one character: the value of a decimal digit of any script; -1
\* stands for ValueError, raised for every other character, the digits that
\* are no decimal digits (such as the superscript two) among them
DigitOf(ch) ==
    IF ch \in OrdZero..OrdNine THEN ch - OrdZero
    ELSE IF \E z \in WideZeros : z <= ch /\ ch <= z + 9
    THEN ch - (CHOOSE z \in WideZeros : z <= ch /\ ch <= z + 9)
    ELSE -1

\* encoder_packets.py line 27-51: Packet._encode_imei_bcd
EncodeImeiBcd(imei_str) ==
    LET digits == SelectSeq(imei_str, IsDigit)
        even == IF Len(digits) % 2 = 1 THEN <<OrdZero>> \o digits ELSE digits
        b == [i \in 1..(Len(even) \div 2) |->
                 DigitOf(even[2 * i - 1]) * 16 + DigitOf(even[2 * i])]
    IN IF Len(digits) = 0
       THEN [ok |-> TRUE, bytes |-> Zeros(ImeiBytes)]
       ELSE IF \E i \in 1..Len(even) : DigitOf(even[i]) = -1
       THEN [ok |-> FALSE, bytes |-> <<>>]
       ELSE IF Len(b) < ImeiBytes
       THEN [ok |-> TRUE, bytes |-> b \o Zeros(ImeiBytes - Len(b))]
       ELSE [ok |-> TRUE, bytes |-> SubSeq(b, 1, ImeiBytes)]

\* encoder_packets.py line 6-25: Packet.__init__
PacketInit(command, imei, txn, version) ==
    [command |-> IF Len(command) = 1 THEN command \o <<OrdNul>>
                 ELSE IF Len(command) >= 2 THEN SubSeq(command, 1, 2)
                 ELSE <<OrdNul, OrdNul>>,
     imei |-> imei,
     transaction_id |-> txn,
     version |-> version]

\* encoder_packets.py line 53-73: Packet.build_header; struct.pack raises
\* struct.error for a value outside the range of its format
BuildHeader(self) ==
    LET imei_bytes == EncodeImeiBcd(self.imei)
    IN IF ~imei_bytes.ok
       THEN [ok |-> FALSE, bytes |-> <<>>]
       ELSE IF \/ self.version \notin 0..ByteMax
               \/ self.command[1] \notin 0..ByteMax
               \/ self.command[2] \notin 0..ByteMax
               \/ self.transaction_id \notin 0..WordMax
       THEN [ok |-> FALSE, bytes |-> <<>>]
       ELSE [ok |-> TRUE,
             bytes |-> <<self.version, self.command[1], self.command[2],
                         self.transaction_id \div 256, self.transaction_id % 256>>
                       \o imei_bytes.bytes]

\* bytes.hex()
ToHex(bytes) ==
    [i \in 1..(2 * Len(bytes)) |->
        IF i % 2 = 1 THEN HexDigits[(bytes[(i + 1) \div 2] \div 16) + 1]
        ELSE HexDigits[(bytes[i \div 2] % 16) + 1]]

\* the device identifiers given to the codec: runs of decimal digits of every
\* length, and strings with other characters
DigitRun(n, d) == [i \in 1..n |-> OrdZero + ((d + i) % 10)]

ImeiInputs ==
    {DigitRun(n, d) : n \in 0..MaxImeiLen, d \in 0..MaxImeiStart}
    \cup {<<OrdZero + 3, OrdZero + 5, OrdDash, OrdZero + 8, OrdLowerA, OrdZero + 4>>,
          <<OrdZero + 1, OrdZero + 2, OrdSuperTwo>>,
          <<OrdLowerA>>}

CommandInputs == {<<>>, <<OrdT>>, <<OrdC, OrdR>>, <<OrdT, OrdC, OrdR>>, <<OrdEuro>>}

TxnInputs == {0, 7, ByteMax, ByteMax + 1, WordMax}

VersionInputs == {1, 2}

\* a call of Packet._encode_imei_bcd
EncodeImeiCall ==
    /\ calc = NoCalc
    /\ \E imei \in ImeiInputs :
          calc' = [op |-> "encode_imei", imei |-> imei, result |-> EncodeImeiBcd(imei)]
    /\ UNCHANGED CodecRest

\* a call of Packet(command, imei, transaction_id, version).build_header()
BuildHeaderCall ==
    /\ calc = NoCalc
    /\ \E command \in CommandInputs, imei \in ImeiInputs,
          txn \in TxnInputs, version \in VersionInputs :
          calc' = [op |-> "build_header", command |-> command, imei |-> imei,
                   transaction_id |-> txn, version |-> version,
                   result |-> BuildHeader(PacketInit(command, imei, txn, version))]
    /\ UNCHANGED CodecRest

\* a call of PacketDecoder.decode_packet_header on the header just built
DecodeHeaderCall ==
    /\ calc.op = "build_header" /\ calc.result.ok
    /\ calc' = [op |-> "decode_header", command |-> calc.command, imei |-> calc.imei,
                transaction_id |-> calc.transaction_id, version |-> calc.version,
                result |-> DecodePacketHeader(ToHex(calc.result.bytes))]
    /\ UNCHANGED CodecRest

HeaderInit ==
    /\ GateInit(0, 0)
    /\ CorrInit(NoCycles)
    /\ ExtInit({}, 0)

HeaderNext ==
    \/ EncodeImeiCall
    \/ BuildHeaderCall
    \/ DecodeHeaderCall

SpecHeader == HeaderInit /\ [][HeaderNext]_vars

\* a fault variant: the string is cut one byte short of the limit
ClipShort(bytes_data) ==
    IF Len(bytes_data) > ByteMax THEN SubSeq(bytes_data, 1, ByteMax - 1) ELSE bytes_data

\* encoder.py line 25-26: the bytes kept of a string too long for a length byte
Clip(bytes_data) ==
    IF Len(bytes_data) > ByteMax THEN SubSeq(bytes_data, 1, ByteMax) ELSE bytes_data

\* encoder.py line 11-29: encode_var_string; str.encode('ascii') raises
\* UnicodeEncodeError for a character above 127
EncodeVarString(input_str) ==
    IF \E i \in 1..Len(input_str) : input_str[i] > AsciiMax
    THEN [ok |-> FALSE, bytes |-> <<>>]
    ELSE LET bytes_data == Clip(input_str)
         IN IF Len(bytes_data) > ByteMax
            THEN [ok |-> FALSE, bytes |-> <<>>]
            ELSE [ok |-> TRUE, bytes |-> <<Len(bytes_data)>> \o bytes_data]

\* data[a:b] of Python
Slice(data, a, b) == SubSeq(data, a + 1, IF b < Len(data) THEN b ELSE Len(data))

\* int.from_bytes(int_bytes, byteorder='big')
RECURSIVE FromBytes(_)
FromBytes(int_bytes) ==
    IF int_bytes = <<>> THEN 0
    ELSE FromBytes(SubSeq(int_bytes, 1, Len(int_bytes) - 1)) * 256
         + int_bytes[Len(int_bytes)]

\* a fault variant: the length is not compared with the buffer
LacksNever(self, n) == FALSE

\* decoder.py line 126 and 152: the buffer is too short for n more bytes
Lacks(self, n) == self.position + n > Len(self.data)

\* decoder.py line 97-104: DataReader.__init__
NewDataReader(data) == [data |-> data, position |-> 0]

NoValue == <<-1>>

\* decoder.py line 106-136: DataReader.read_var_string; the result holds the
\* reader after the call and either the value returned or the error raised
ReadVarString(self) ==
    IF self.position >= Len(self.data)
    THEN [self |-> self, ok |-> FALSE, value |-> NoValue]
    ELSE LET length == self.data[self.position + 1]
             atString == [self EXCEPT !.position = @ + 1]
             string_bytes == Slice(self.data, atString.position, atString.position + length)
             after == [atString EXCEPT !.position = @ + length]
         IN IF Lacks(atString, length)
            THEN [self |-> atString, ok |-> FALSE, value |-> NoValue]
            ELSE IF \E i \in 1..Len(string_bytes) : string_bytes[i] > AsciiMax
            THEN [self |-> after, ok |-> FALSE, value |-> NoValue]
            ELSE [self |-> after, ok |-> TRUE, value |-> string_bytes]

\* decoder.py line 138-160: DataReader.read_int4; the integer, of 32 bits
\* unsigned, is held as its high and its low 16 bits
ReadInt4(self) ==
    IF Lacks(self, 4)
    THEN [self |-> self, ok |-> FALSE, value |-> NoValue]
    ELSE [self |-> [self EXCEPT !.position = @ + 4], ok |-> TRUE,
          value |-> <<FromBytes(Slice(self.data, self.position, self.position + 2)),
                      FromBytes(Slice(self.data, self.position + 2, self.position + 4))>>]

\* the strings given to encode_var_string: ASCII strings of every length up
\* to MaxStrLen, and a string with a character above 127
LetterRun(n, d) == [i \in 1..n |-> OrdLowerA + ((d + i) % 26)]

StringInputs ==
    {LetterRun(n, d) : n \in 0..MaxStrLen, d \in 0..MaxStrStart}
    \cup {<<OrdLowerA, OrdEAcute>>}

\* the buffers given to a DataReader
ByteInputs == {0, 2, OrdLowerA, ByteMax - 55}

BufferInputs == UNION {[1..n -> ByteInputs] : n \in 0..MaxBufLen}

\* a call of encode_var_string
EncodeVarStringCall ==
    /\ calc = NoCalc
    /\ \E input_str \in StringInputs :
          calc' = [op |-> "encode_var_string", input |-> input_str,
                   result |-> EncodeVarString(input_str)]
    /\ UNCHANGED CodecRest

\* DataReader(encoded).read_var_string() on the string just encoded
ReadBackCall ==
    /\ calc.op = "encode_var_string" /\ calc.result.ok
    /\ calc' = [op |-> "read_back", input |-> calc.input, encoded |-> calc.result.bytes,
                result |-> ReadVarString(NewDataReader(calc.result.bytes))]
    /\ UNCHANGED CodecRest

\* DataReader(data)
NewReaderCall ==
    /\ calc = NoCalc
    /\ \E data \in BufferInputs :
          calc' = [op |-> "reader", call |-> "init", before |-> 0,
                   result |-> [self |-> NewDataReader(data), ok |-> TRUE, value |-> NoValue]]
    /\ UNCHANGED CodecRest

\* reader.read_var_string(), its error caught by the caller
ReadVarStringCall ==
    /\ calc.op = "reader"
    /\ calc' = [op |-> "reader", call |-> "read_var_string",
                before |-> calc.result.self.position,
                result |-> ReadVarString(calc.result.self)]
    /\ UNCHANGED CodecRest

\* reader.read_int4(), its error caught by the caller
ReadInt4Call ==
    /\ calc.op = "reader"
    /\ calc' = [op |-> "reader", call |-> "read_int4",
                before |-> calc.result.self.position,
                result |-> ReadInt4(calc.result.self)]
    /\ UNCHANGED CodecRest

StringsInit ==
    /\ GateInit(0, 0)
    /\ CorrInit(NoCycles)
    /\ ExtInit({}, 0)

StringsNext ==
    \/ EncodeVarStringCall
    \/ ReadBackCall
    \/ NewReaderCall
    \/ ReadVarStringCall
    \/ ReadInt4Call

SpecStrings == StringsInit /\ [][StringsNext]_vars

(***************************************************************************)
(* The sensor variants of encoder_data.py.  A temperature or humidity is    *)
(* held as its number of eighths, which a float holds exactly, so that      *)
(* value * 10 is the exact quotient 5 * eighths / 4.                        *)
(***************************************************************************)
ShortMax == 32767

\* bounds of the sensor inputs
MaxEighths == 12
MaxRecords == 2

\* value * 10 as a number of quarters
TimesTen(eighths) == 5 * eighths

\* int(x) of a float x given in quarters: the fraction is dropped
IntOfQuarters(n) == IF n >= 0 THEN n \div 4 ELSE 0 - ((0 - n) \div 4)

\* round(x) of a float x given in quarters: the nearest integer, the even one
\* of the two when x lies halfway
RoundOfQuarters(n) ==
    LET f == n \div 4
        r == n % 4
    IN IF r < 2 THEN f
       ELSE IF r > 2 THEN f + 1
       ELSE IF f % 2 = 0 THEN f ELSE f + 1

\* struct.pack('>H', n): two bytes, or struct.error (<<-1>>) out of range
PackH(n) == IF n \in 0..WordMax THEN <<n \div 256, n % 256>> ELSE <<-1>>

\* struct.pack('>h', n): two bytes in two's complement, or struct.error
PackShort(n) ==
    IF n \in (0 - ShortMax - 1)..ShortMax
    THEN <<((n + WordMax + 1) % (WordMax + 1)) \div 256, (n + WordMax + 1) % 256>>
    ELSE <<-1>>

\* struct.pack('>B', n)
PackB(n) == IF n \in 0..ByteMax THEN <<n>> ELSE <<-1>>

\* struct.pack('>I', n): four bytes, the most significant first, or
\* struct.error out of the range 0..4294967295
PackI(n) ==
    IF n >= 0 /\ n \div (WordMax + 1) <= WordMax
    THEN PackH(n \div (WordMax + 1)) \o PackH(n % (WordMax + 1))
    ELSE <<-1>>

\* the fields one after the other
RECURSIVE Joined(_)
Joined(fields) ==
    IF fields = <<>> THEN <<>>
    ELSE IF Len(fields) = 1 THEN fields[1]
    ELSE Joined(SubSeq(fields, 1, Len(fields) \div 2))
         \o Joined(SubSeq(fields, Len(fields) \div 2 + 1, Len(fields)))

\* the bytes of several packed fields, or the error of the first that fails
Packed(fields) ==
    IF \E i \in 1..Len(fields) : fields[i] = <<-1>>
    THEN [ok |-> FALSE, bytes |-> <<>>]
    ELSE [ok |-> TRUE, bytes |-> Joined(fields)]

\* encoder_data.py line 77-81: SensorData.to_bytes
SensorDataToBytes(self) ==
    LET payload == Packed(<<PackH(IntOfQuarters(TimesTen(self.temperature))),
                            PackB(self.battery), PackB(self.rssi)>>)
    IN IF ~payload.ok THEN payload
       ELSE Packed(<<PackB(self.sensor_type), PackB(self.sensor_version),
                     PackB(Len(payload.bytes)), payload.bytes>>)

\* encoder_data.py line 126: the scaled value of one reading of a record
Scaled(eighths) == RoundOfQuarters(TimesTen(eighths))

\* encoder_data.py line 124-128: the bytes of the records
RecordsBytes(records) ==
    [k \in 1..(2 * Len(records)) |->
        IF k % 2 = 1 THEN PackShort(Scaled(records[(k + 1) \div 2].temperature))
        ELSE PackShort(Scaled(records[k \div 2].humidity))]

\* encoder_data.py line 114-135: SensorMultiData.to_bytes; a payload of
\* more than 255 bytes (62 records or more) makes struct.pack('>BBB', ...,
\* len(payload)) of line 134 raise struct.error
SensorMultiDataToBytes(self) ==
    LET payload == Packed(<<PackB(self.battery), PackB(self.rssi),
                            PackI(self.first_timestamp), PackH(self.interval),
                            PackB(Len(self.records))>> \o RecordsBytes(self.records))
    IN IF ~payload.ok THEN payload
       ELSE IF Len(payload.bytes) > ByteMax THEN [ok |-> FALSE, bytes |-> <<>>]
       ELSE Packed(<<PackB(self.sensor_type), PackB(self.sensor_version),
                     PackB(Len(payload.bytes)), payload.bytes>>)

\* the readings given to the sensor variants: every eighth around zero, and
\* values whose scaled result is at the ends of the 16-bit range
ReadingInputs ==
    ((0 - MaxEighths)..MaxEighths)
    \cup {8 * 3276 + 5, 8 * 3276 + 6, 0 - (8 * 3276 + 6), 0 - (8 * 3276 + 7)}

RecordInputs == [temperature : ReadingInputs, humidity : ReadingInputs]

\* SensorData(1, temperature, 80, 20).to_bytes()
SensorDataCall ==
    /\ calc = NoCalc
    /\ \E t \in ReadingInputs :
          LET self == [sensor_type |-> 1, sensor_version |-> 1, temperature |-> t,
                       battery |-> 80, rssi |-> 20]
          IN calc' = [op |-> "sensor_data", self |-> self, result |-> SensorDataToBytes(self)]
    /\ UNCHANGED CodecRest

\* SensorMultiData(80, 20, 1000, 60, records).to_bytes()
SensorMultiDataCall ==
    /\ calc = NoCalc
    /\ \E n \in 1..MaxRecords : \E first \in RecordInputs :
          LET records == [i \in 1..n |-> IF i = n THEN first
                                         ELSE [temperature |-> 0 - first.humidity,
                                               humidity |-> first.temperature]]
              self == [sensor_type |-> 2, sensor_version |-> 1, battery |-> 80, rssi |-> 20,
                       first_timestamp |-> 1000, interval |-> 60, records |-> records]
          IN calc' = [op |-> "sensor_multi", self |-> self,
                      result |-> SensorMultiDataToBytes(self)]
    /\ UNCHANGED CodecRest

SensorInit ==
    /\ GateInit(0, 0)
    /\ CorrInit(NoCycles)
    /\ ExtInit({}, 0)

SensorNext ==
    \/ SensorDataCall
    \/ SensorMultiDataCall

SpecSensor == SensorInit /\ [][SensorNext]_vars

\* a producer is blocked in ev.wait() of wait_for_ack (line 129)
Blocked(p) == ppc[p] = "l129" /\ ~evFlag[pev[p]]

\* C25: a producer blocked in wait_for_ack holds neither the acknowledgment
\* lock nor a call of send_command; while it is blocked, the other producer and
\* the dispatcher can take the next step of their send wherever they are in
\* it, and the dispatcher is never inside wait_for_ack
C25_WaitHoldsNothing ==
    /\ \A p \in Waiters : Blocked(p) => ack_lock # p /\ spc[p] = "idle"
    /\ Blocked("telemetry") =>
          /\ ppc["motion"] = "l382" => ENABLED CycleCall("motion")
          /\ ppc["motion"] = "l382w" =>
                ENABLED (GateCall("motion") \/ CycleReturn("motion"))
          /\ dpc = "l272" => ENABLED ConfigReply
          /\ dpc = "l95" => ENABLED (GateCall("dispatcher") \/ ConfigReplyReturn)
    /\ dpc \notin {"l120", "l121", "l129"}

\* telemetry is still blocked after motion and the dispatcher have each
\* completed a send
C25_Witness ==
    /\ Blocked("telemetry")
    /\ ppc["motion"] = "l120" /\ spc["motion"] = "idle"
    /\ dpc = "l234" /\ Len(sent) = 1
    /\ Len(written) = 10

\* the digits the claim packs: the digit characters, one zero before an odd
\* count, zero digits after them up to sixteen, the first sixteen kept
PackedDigits(imei_str) ==
    LET digits == SelectSeq(imei_str, IsDigit)
        even == IF Len(digits) % 2 = 1 THEN <<OrdZero>> \o digits ELSE digits
    IN [i \in 1..(2 * ImeiBytes) |-> IF i <= Len(even) THEN even[i] ELSE OrdZero]

\* C27: the device-id encoder returns 8 bytes for every string: byte i holds
\* digit 2i-1 of the packed digits in its high nibble and digit 2i in its low
\* nibble
C27_ImeiPacked ==
    calc.op = "encode_imei" =>
        /\ calc.result.ok
        /\ Len(calc.result.bytes) = ImeiBytes
        /\ \A i \in 1..ImeiBytes :
              calc.result.bytes[i] =
                  (PackedDigits(calc.imei)[2 * i - 1] - OrdZero) * 16
                  + (PackedDigits(calc.imei)[2 * i] - OrdZero)

\* C26: build_header returns 13 bytes for every command string, transaction
\* id in 0..65535 and device-id string: the version, the two command bytes
\* (a 1-character command followed by a null byte), the transaction id
\* big-endian and the 8 bytes of the device id
C26_HeaderLayout ==
    calc.op = "build_header" /\ calc.transaction_id \in 0..WordMax =>
        /\ calc.result.ok
        /\ Len(calc.result.bytes) = HeaderBytes
        /\ calc.result.bytes[1] = calc.version
        /\ Len(calc.command) >= 1 => calc.result.bytes[2] = calc.command[1]
        /\ Len(calc.command) = 1 => calc.result.bytes[3] = OrdNul
        /\ Len(calc.command) >= 2 => calc.result.bytes[3] = calc.command[2]
        /\ calc.result.bytes[4] * 256 + calc.result.bytes[5] = calc.transaction_id
        /\ calc.result.bytes[5] \in 0..ByteMax
        /\ SubSeq(calc.result.bytes, 6, HeaderBytes) = EncodeImeiBcd(calc.imei).bytes

\* the digits held by the bytes of a packed device id, high nibble first
BcdDigits(bytes) ==
    [i \in 1..(2 * Len(bytes)) |->
        IF i % 2 = 1 THEN OrdZero + (bytes[(i + 1) \div 2] \div 16)
        ELSE OrdZero + (bytes[i \div 2] % 16)]

\* C28: decoding the header built from a version, a command, a transaction id
\* and a device id of 1..20 decimal digits yields these four fields again (the
\* device id as the digits held by the bytes after the transaction id)
C28_HeaderRoundTrip ==
    /\ calc.op = "decode_header"
    /\ Len(calc.imei) \in 1..MaxImeiLen
    /\ \A i \in 1..Len(calc.imei) : calc.imei[i] \in OrdZero..OrdNine
    => /\ calc.result.ok
       /\ calc.result.version = calc.version
       /\ calc.result.command = calc.command
       /\ calc.result.txn_id = calc.transaction_id
       /\ calc.result.data = calc.imei \/ BcdDigits(calc.result.data) = calc.imei

\* C29: encode_var_string gives one length byte and that many bytes; a string
\* of at most 255 bytes is encoded whole and read_var_string returns it, a
\* longer one is cut to its first 255 bytes with length byte 255, no error
C29_VarString ==
    /\ calc.op = "encode_var_string" /\ calc.input \in Seq(0..AsciiMax) =>
          /\ calc.result.ok
          /\ Len(calc.result.bytes) = 1 + calc.result.bytes[1]
          /\ calc.result.bytes[1] =
                 IF Len(calc.input) <= ByteMax THEN Len(calc.input) ELSE ByteMax
          /\ Tail(calc.result.bytes) = SubSeq(calc.input, 1, calc.result.bytes[1])
    /\ calc.op = "read_back" =>
          /\ calc.result.ok
          /\ Len(calc.input) <= ByteMax => calc.result.value = calc.input
          /\ Len(calc.input) > ByteMax =>
                calc.result.value = SubSeq(calc.input, 1, ByteMax)
          /\ calc.result.self.position = Len(calc.encoded)

\* a string of 256 bytes was encoded and read back as its first 255 bytes
C29_Witness ==
    /\ calc.op = "read_back"
    /\ Len(calc.input) = ByteMax + 1
    /\ calc.encoded[1] = ByteMax
    /\ Len(calc.result.value) = ByteMax

\* C30: read_var_string and read_int4 on a buffer too short for the length
\* they need fail without a value, a read that succeeds returns the whole
\* value, and the position stays within 0..len(data)
C30_ReadsValidated ==
    calc.op = "reader" =>
        LET r == calc.result.self
            left == Len(r.data) - calc.before
        IN /\ r.position \in 0..Len(r.data)
           /\ calc.call = "read_int4" /\ left < 4 =>
                 ~calc.result.ok /\ calc.result.value = NoValue
           /\ calc.call = "read_int4" /\ calc.result.ok =>
                 r.position = calc.before + 4
           /\ calc.call = "read_var_string" /\ left < 1 =>
                 ~calc.result.ok /\ calc.result.value = NoValue
           /\ calc.call = "read_var_string" /\ left >= 1
                 /\ r.data[calc.before + 1] > left - 1 =>
                 ~calc.result.ok /\ calc.result.value = NoValue
           /\ calc.call = "read_var_string" /\ calc.result.ok =>
                 /\ Len(calc.result.value) = r.data[calc.before + 1]
                 /\ r.position = calc.before + 1 + Len(calc.result.value)

\* read_var_string failed on a length byte that declares more bytes than the
\* buffer holds, after an earlier read had succeeded
C30_Witness ==
    /\ calc.op = "reader" /\ calc.call = "read_var_string"
    /\ calc.before > 0
    /\ calc.before < Len(calc.result.self.data)
    /\ calc.result.self.data[calc.before + 1] > 0
    /\ ~calc.result.ok
    /\ calc.result.self.position = calc.before + 1

\* the signed 16-bit integer held big-endian by bytes k and k + 1
ShortAt(bytes, k) ==
    LET u == bytes[k] * 256 + bytes[k + 1]
    IN IF u > ShortMax THEN u - (WordMax + 1) ELSE u

\* v is round(x) for the x of n quarters: an integer nearest to x
IsRound(v, n) == 4 * v - n \in -2..2

FitsShort(n) == \E v \in (0 - ShortMax - 1)..ShortMax : IsRound(v, n)

\* C31: the Basic and the Multi-record variant transmit each temperature and
\* humidity as the signed 16-bit big-endian integer round(value * 10),
\* whenever that fits in -32768..32767
C31_ScaledReadings ==
    /\ calc.op = "sensor_data" /\ FitsShort(TimesTen(calc.self.temperature)) =>
          /\ calc.result.ok
          /\ IsRound(ShortAt(calc.result.bytes, 4), TimesTen(calc.self.temperature))
    /\ calc.op = "sensor_multi" =>
          \A i \in 1..Len(calc.self.records) :
             LET rec == calc.self.records[i]
             IN /\ FitsShort(TimesTen(rec.temperature)) /\ FitsShort(TimesTen(rec.humidity)) =>
                      calc.result.ok
                /\ calc.result.ok =>
                      /\ IsRound(ShortAt(calc.result.bytes, 9 + 4 * i), TimesTen(rec.temperature))
                      /\ IsRound(ShortAt(calc.result.bytes, 11 + 4 * i), TimesTen(rec.humidity))

\* C32: reading OK sets the pending success flag and then the completion
\* signal, reading ERROR clears the flag and sets the signal, and neither
\* changes the accumulated data or the event queue; an empty line changes none
\* of the flag, the signal, the data and the queue
C32_TerminatorFrame ==
    [][/\ rpc = "l73" /\ rpc' = "l79" =>
             /\ rraw' \in {LineOK, LineERROR}
             /\ responseSuccess' = (rraw' = LineOK)
             /\ UNCHANGED <<responseData, urcQueue, responseEvent>>
       /\ rpc = "l79" /\ rpc' # rpc =>
             /\ responseEvent' /\ rpc' = "l73"
             /\ UNCHANGED <<responseData, urcQueue, responseSuccess>>
       /\ rpc = "l73" /\ rpc' = "l73" /\ linesLeft' # linesLeft =>
             UNCHANGED <<responseSuccess, responseEvent, responseData, urcQueue>>]_vars

\* an ERROR line has been read while data was pending and a command was in
\* flight: the flag is false, the signal is about to be set
C32_Witness ==
    /\ rpc = "l79" /\ rraw = LineERROR
    /\ ~responseSuccess
    /\ responseData # PyNone
    /\ \E c \in Callers : InFlight(c)

\* the lines read for a call are k >= 1 response-data lines and the terminator
DataThenTerminator(h) ==
    /\ Len(h) >= 2
    /\ \A i \in 1..(Len(h) - 1) : h[i].kind = "data"
    /\ h[Len(h)].kind \in {"ok", "error"}

\* C33: after k response-data lines read between a send's reset and its
\* terminator the returned data is the single value when k = 1 and the
\* sequence of all k values in arrival order when k >= 2, empty values
\* included
C33_AccumulationOrder ==
    \A c \in Callers :
        Exchange(c) /\ DataThenTerminator(hist[c].lines) =>
            atr[c].data = Accumulated(DataValues(hist[c].lines))

\* C34: when send_command writes the command line to the transport the
\* pending success flag is false, the pending data is none and the completion
\* signal is clear, whatever the Line Reader has done meanwhile
C34_ResetAtWrite ==
    [][\A c \in Callers :
          spc[c] = "l132" /\ spc'[c] = "l133" =>
              /\ ~responseSuccess
              /\ responseData = PyNone
              /\ ~responseEvent]_vars

\* the number of commas of a string
RECURSIVE Commas(_)
Commas(str) ==
    IF str = <<>> THEN 0
    ELSE (IF Head(str) = "," THEN 1 ELSE 0) + Commas(Tail(str))

\* the modem-read command failed or timed out, returned no data, or returned
\* fewer than four comma-separated fields
ReceiveUseless(rsp) ==
    \/ ~rsp.success
    \/ rsp.data = PyNone
    \/ rsp.data.kind = "str" /\ Commas(rsp.data.items[1]) < 3

\* C35: when the modem-read command that follows a socket-data event fails,
\* times out, returns no data or returns fewer than four fields, the
\* dispatcher resolves no transaction, sends no packet, leaves the
\* configuration unchanged and goes on to the next event
C35_UselessReceive ==
    [][dpc = "l241" /\ dpc' # dpc /\ ReceiveUseless(atr["dispatcher"]) =>
          /\ dpc' = "l234"
          /\ UNCHANGED <<sent, written, acked, ack_events, evFlag, ack_event, confVars,
                         transaction_id>>]_vars

\* the dispatcher is back at wait_for_urc after a modem-read command that
\* succeeded with the three-field answer
C35_Witness ==
    /\ dpc = "l234" /\ deq # <<>>
    /\ written = <<CmdReceive>>
    /\ responseSuccess /\ responseData = PyStr(RespOf(LineRecvShort))
    /\ atr["dispatcher"] = NoResponse /\ spc["dispatcher"] = "idle"
    /\ hist["dispatcher"] = Fresh
    /\ linesLeft = 0
    /\ sent = <<>> /\ acked = {}

\* C36: a result with success=true is backed by an OK line read after the
\* command was written: once a call is about to write its command and the
\* transport has no line left to deliver, no call of that thread returns
\* success=true
C36_SuccessBacked ==
    [](\A c \in Callers :
          spc[c] = "l132" /\ linesLeft = 0 =>
              [](spc[c] = "done" /\ Gated(scmd[c]) => ~atr[c].success))

\* C37: the acknowledgment memory does not leak across the wraparound of the
\* counter: wait_for_ack returns True only if the id was resolved after it was
\* most recently issued. Under SpecWrap begun holds the ids resolved since id 1
\* was issued again, so a wait that has returned True has its id in begun.
C37_NoLeakAcrossWrap ==
    \A p \in Waiters :
        ppc[p] = "ret" /\ pack[p] => ptxn[p] \in begun

\* C38: for every command string, matching the AT+/AT% pattern or not,
\* send_command returns success = true only when an OK terminator was read for
\* it: a call that has returned success has at least seen the Line Reader take a
\* line from the transport.
C38_EveryCommandWaits ==
    \A c \in Callers :
        spc[c] = "done" /\ atr[c].success => linesLeft < StartupLines

\* C39: whenever the acknowledgment lock is free, no transaction id is both a key
\* of the pending-waiter mapping and a member of the already-acknowledged set
C39_PendingOrAcked ==
    ack_lock = "free" => DOMAIN ack_events \cap acked = {}

\* a wait has timed out and left its waiter behind, another id has been resolved
\* by the dispatcher, and a successful wait has returned
C39_Witness ==
    /\ ack_lock = "free"
    /\ \E p \in Waiters : ppc[p] = "ret" /\ ptxn[p] \in DOMAIN ack_events
    /\ completed # {}
    /\ \E p \in Waiters : ppc[p] = "ret" /\ pack[p] /\ pev[p] # NoEv
    /\ \E p \in Waiters : ppc[p] = "ret" /\ ~pack[p] /\ pev[p] # NoEv

\* C40: no configuration received from the server can stop telemetry: whatever
\* integer interval and readings values a configuration write stores, zero and
\* negative ones included, the telemetry producer stays in its cycle loop: no
\* statement that uses the configuration (line 355-367 and 386) ends the thread
C40_TelemetryKeepsRunning ==
    [][ppc["telemetry"] \in {"l355", "l355b", "l358", "l367", "ret"}
          => ppc'["telemetry"] # "ended"]_vars

====
